---- MODULE Spec2Model ----
(***************************************************************************)
(* Opening-range-breakout strategy: the per-day TradingSession state       *)
(* machine (session.py) with its components: RSI, SuperTrend, the          *)
(* opening-range and breakout detectors, EntrySignal, ExitManager and      *)
(* PositionManager.                                                        *)
(*                                                                         *)
(* Numbers.  Prices and premiums are integers.  The indicators divide, so  *)
(* their averages and bands are exact rationals [n, d] in lowest terms     *)
(* (the Python code uses binary floats; the model compares exactly).       *)
(* Optional values (Python None) are sequences: <<>> is None, <<x>> is x.  *)
(* Times of day are minute indices 1..MaxTime.                             *)
(***************************************************************************)
EXTENDS Integers, Sequences, FiniteSets, TLC

VARIABLES
    rsi,           \* TradingSession._rsi        (RSI object)
    supertrend,    \* TradingSession._supertrend (SuperTrend object)
    orb,           \* TradingSession._orb        (OpeningRangeDetector)
    breakout,      \* TradingSession._breakout   (None or BreakoutDetector)
    entry,         \* TradingSession._entry      (None or EntrySignal parameters)
    position,      \* PositionManager._position  (Position)
    trade_counter, \* PositionManager._trade_counter
    trades,        \* TradingSession._trades
    day_done,      \* TradingSession._day_done
    call,          \* the last process_candle call: its candle's time, its premium, its result
    config,        \* the configuration values that vary: trailing_ladder, max_re_entries_per_side
    fn             \* a call of one component function: its inputs and its result

vars == <<rsi, supertrend, orb, breakout, entry, position, trade_counter, trades,
          day_done, call, config, fn>>

sessionVars == <<rsi, supertrend, orb, breakout, entry, position, trade_counter,
                 trades, day_done, call>>

----------------------------------------------------------------------------
(* Bounds of the model *)

\* times of day are 1..MaxTime
MaxTime == 7
\* underlying prices of a component call are 1..MaxPrice
MaxPrice == 2
\* option premiums of a component call are 1..MaxPremium
MaxPremium == 4
\* underlying prices fed to the detectors and to the tick scan are 1..MaxLevel
MaxLevel == 3

\* The session is fed candles with prices in SessionPrices and premiums in
\* SessionPremiums: the smallest ranges in which both breakout sides, every entry
\* gate and every exit reason occur.
SessionPrices == {1, 2}
SessionPremiums == {1, 2, 3}

----------------------------------------------------------------------------
(* Configuration (config.py), scaled to the model's ranges *)

\* SessionConfig.orb_candles
OrbCandles == 1
\* SessionConfig.no_new_entry_after
NoNewEntryAfter == 5
\* SessionConfig.force_exit_time
ForceExitTime == 6
\* StrategyConfig.rsi_period
RsiPeriod == 1
\* StrategyConfig.rsi_entry_min
RsiEntryMin == 40
\* StrategyConfig.rsi_entry_max
RsiEntryMax == 100
\* StrategyConfig.supertrend_period
SupertrendPeriod == 1
\* StrategyConfig.supertrend_multiplier
SupertrendMultiplier == 1
\* MarketConfig.lot_size
LotSize == 25
\* PositionManager lots (session.py passes lots=1)
Lots == 1

\* TrailingStep(trigger, trail_to); trail_to = -1 means full exit
TrailingStep(trigger, trail_to) == [trigger |-> trigger, trail_to |-> trail_to]

\* StrategyConfig.trailing_ladder of the session: +1 trails to cost, +2 is the full exit
DefaultLadder == <<TrailingStep(1, 0), TrailingStep(2, -1)>>

\* StrategyConfig.max_re_entries_per_side of the session is one of these
ReEntryLimits == {1, 2}

\* the part of AppConfig that differs between runs
AppConfig(trailing_ladder, max_re_entries_per_side) ==
    [trailing_ladder |-> trailing_ladder, max_re_entries_per_side |-> max_re_entries_per_side]

----------------------------------------------------------------------------
(* Optional values and small helpers *)

None == <<>>
Some(x) == <<x>>

Abs(x) == IF x < 0 THEN -x ELSE x
Max2(a, b) == IF a >= b THEN a ELSE b
Min2(a, b) == IF a <= b THEN a ELSE b

RECURSIVE SumSeq(_)
SumSeq(s) == IF s = <<>> THEN 0 ELSE Head(s) + SumSeq(Tail(s))

RECURSIVE GCD(_, _)
GCD(a, b) == IF b = 0 THEN a ELSE GCD(b, a % b)

\* the rational n/d (d > 0) in lowest terms
Rat(n, d) == LET g == GCD(Abs(n), d) IN [n |-> n \div g, d |-> d \div g]
RInt(i) == [n |-> i, d |-> 1]
RAdd(x, y) == Rat(x.n * y.d + y.n * x.d, x.d * y.d)
RSub(x, y) == Rat(x.n * y.d - y.n * x.d, x.d * y.d)
RMulInt(x, k) == Rat(x.n * k, x.d)
RMul(x, y) == Rat(x.n * y.n, x.d * y.d)
RLe(x, y) == x.n * y.d <= y.n * x.d
RLt(x, y) == x.n * y.d < y.n * x.d
RMin(x, y) == IF RLe(x, y) THEN x ELSE y
RMax(x, y) == IF RLe(y, x) THEN x ELSE y

----------------------------------------------------------------------------
(* models.py: Candle *)

Candle(t, o, h, l, c) == [timestamp |-> t, open |-> o, high |-> h, low |-> l, close |-> c]

is_bullish(candle) == candle.close >= candle.open

\* the tick order of a bullish candle for every candle (a faulty variant)
synthetic_ticks_always_bullish(candle) ==
    <<candle.open, candle.low, candle.high, candle.close>>

synthetic_ticks(candle) ==
    IF is_bullish(candle)
    THEN <<candle.open, candle.low, candle.high, candle.close>>
    ELSE <<candle.open, candle.high, candle.low, candle.close>>

----------------------------------------------------------------------------
(* indicators/rsi.py *)

RSIReset ==
    [prev_close |-> None, avg_gain |-> None, avg_loss |-> None,
     gain_buf |-> <<>>, loss_buf |-> <<>>]

\* _compute_rsi giving 50 when there has been neither gain nor loss (a faulty variant)
RSICompute_flat_is_50(s) ==
    LET g == s.avg_gain[1]
        l == s.avg_loss[1]
    IN  IF l.n = 0 THEN (IF g.n = 0 THEN RInt(50) ELSE RInt(100))
        ELSE RSub(RInt(100), Rat(100 * l.n * g.d, l.n * g.d + g.n * l.d))

\* RSI._compute_rsi: 100 when avg_loss = 0, else 100 - 100 / (1 + avg_gain / avg_loss)
RSICompute(s) ==
    LET g == s.avg_gain[1]
        l == s.avg_loss[1]
    IN  IF l.n = 0 THEN RInt(100)
        ELSE RSub(RInt(100), Rat(100 * l.n * g.d, l.n * g.d + g.n * l.d))

\* RSI.value
RSIValue(s) ==
    IF s.avg_gain = None \/ s.avg_loss = None THEN None ELSE Some(RSICompute(s))

\* Wilder smoothing avg * (1 - 1/P) + x * (1/P)
Wilder(avg, x, P) == Rat(avg.n * (P - 1) + x * avg.d, avg.d * P)

\* update seeding the averages one change early (a faulty variant)
RSIUpdate_seeds_early(s, close, P) ==
    IF s.prev_close = None
    THEN [s EXCEPT !.prev_close = Some(close)]
    ELSE LET change == close - s.prev_close[1]
             gain == Max2(change, 0)
             loss == Max2(-change, 0)
             s2 == [s EXCEPT !.prev_close = Some(close)]
         IN  IF s.avg_gain = None
             THEN LET gb == Append(s.gain_buf, gain)
                      lb == Append(s.loss_buf, loss)
                  IN  IF Len(gb) < P - 1
                      THEN [s2 EXCEPT !.gain_buf = gb, !.loss_buf = lb]
                      ELSE [s2 EXCEPT !.avg_gain = Some(Rat(SumSeq(gb), P)),
                                      !.avg_loss = Some(Rat(SumSeq(lb), P)),
                                      !.gain_buf = <<>>, !.loss_buf = <<>>]
             ELSE [s2 EXCEPT !.avg_gain = Some(Wilder(s.avg_gain[1], gain, P)),
                             !.avg_loss = Some(Wilder(s.avg_loss[1], loss, P))]

\* RSI.update: the state after ingesting close (its return value is RSIValue of it)
RSIUpdate(s, close, P) ==
    IF s.prev_close = None
    THEN [s EXCEPT !.prev_close = Some(close)]
    ELSE LET change == close - s.prev_close[1]
             gain == Max2(change, 0)
             loss == Max2(-change, 0)
             s2 == [s EXCEPT !.prev_close = Some(close)]
         IN  IF s.avg_gain = None
             THEN LET gb == Append(s.gain_buf, gain)
                      lb == Append(s.loss_buf, loss)
                  IN  IF Len(gb) < P
                      THEN [s2 EXCEPT !.gain_buf = gb, !.loss_buf = lb]
                      ELSE [s2 EXCEPT !.avg_gain = Some(Rat(SumSeq(gb), P)),
                                      !.avg_loss = Some(Rat(SumSeq(lb), P)),
                                      !.gain_buf = <<>>, !.loss_buf = <<>>]
             ELSE [s2 EXCEPT !.avg_gain = Some(Wilder(s.avg_gain[1], gain, P)),
                             !.avg_loss = Some(Wilder(s.avg_loss[1], loss, P))]

\* RSI.update: its return value, by the return statements of the code
RSIUpdateResult(s, close, P) ==
    IF s.prev_close = None THEN None
    ELSE IF s.avg_gain = None /\ Len(s.gain_buf) + 1 < P THEN None
    ELSE Some(RSICompute(RSIUpdate(s, close, P)))

----------------------------------------------------------------------------
(* indicators/supertrend.py *)

STReset ==
    [prev_close |-> None, atr |-> None, tr_buf |-> <<>>,
     final_upper |-> None, final_lower |-> None, direction |-> None]

\* SuperTrend.value
STValue(s) ==
    IF s.direction = None \/ s.final_lower = None \/ s.final_upper = None
    THEN None
    ELSE Some([value |-> IF s.direction[1] = 1 THEN s.final_lower[1] ELSE s.final_upper[1],
               direction |-> s.direction[1]])

\* update letting a close on the band flip the direction (a faulty variant)
STUpdate_flips_on_touch(s, high, low, close, P, M) ==
    IF s.prev_close = None
    THEN [s EXCEPT !.prev_close = Some(close)]
    ELSE LET pc == s.prev_close[1]
             tr == Max2(high - low, Max2(Abs(high - pc), Abs(low - pc)))
             buf == Append(s.tr_buf, tr)
         IN  IF s.atr = None /\ Len(buf) < P
             THEN [s EXCEPT !.tr_buf = buf, !.prev_close = Some(close)]
             ELSE LET atr == IF s.atr = None THEN Rat(SumSeq(buf), P)
                             ELSE Wilder(s.atr[1], tr, P)
                      hl2 == Rat(high + low, 2)
                      basic_upper == RAdd(hl2, RMulInt(atr, M))
                      basic_lower == RSub(hl2, RMulInt(atr, M))
                      final_upper ==
                          IF s.final_upper /= None /\ RLe(RInt(pc), s.final_upper[1])
                          THEN RMin(basic_upper, s.final_upper[1])
                          ELSE basic_upper
                      final_lower ==
                          IF s.final_lower /= None /\ RLe(s.final_lower[1], RInt(pc))
                          THEN RMax(basic_lower, s.final_lower[1])
                          ELSE basic_lower
                      direction ==
                          IF s.direction = None
                          THEN (IF RLt(final_upper, RInt(close)) THEN 1 ELSE -1)
                          ELSE IF s.direction[1] = 1
                               THEN (IF RLe(RInt(close), final_lower) THEN -1 ELSE 1)
                               ELSE (IF RLe(final_upper, RInt(close)) THEN 1 ELSE -1)
                  IN  [s EXCEPT !.atr = Some(atr),
                                 !.tr_buf = IF s.atr = None THEN <<>> ELSE @,
                                 !.final_upper = Some(final_upper),
                                 !.final_lower = Some(final_lower),
                                 !.direction = Some(direction),
                                 !.prev_close = Some(close)]

\* SuperTrend.update: the state after ingesting a bar (its return value is STValue of it)
STUpdate(s, high, low, close, P, M) ==
    IF s.prev_close = None
    THEN [s EXCEPT !.prev_close = Some(close)]
    ELSE LET pc == s.prev_close[1]
             tr == Max2(high - low, Max2(Abs(high - pc), Abs(low - pc)))
             buf == Append(s.tr_buf, tr)
         IN  IF s.atr = None /\ Len(buf) < P
             THEN [s EXCEPT !.tr_buf = buf, !.prev_close = Some(close)]
             ELSE LET atr == IF s.atr = None THEN Rat(SumSeq(buf), P)
                             ELSE Wilder(s.atr[1], tr, P)
                      hl2 == Rat(high + low, 2)
                      basic_upper == RAdd(hl2, RMulInt(atr, M))
                      basic_lower == RSub(hl2, RMulInt(atr, M))
                      final_upper ==
                          IF s.final_upper /= None /\ RLe(RInt(pc), s.final_upper[1])
                          THEN RMin(basic_upper, s.final_upper[1])
                          ELSE basic_upper
                      final_lower ==
                          IF s.final_lower /= None /\ RLe(s.final_lower[1], RInt(pc))
                          THEN RMax(basic_lower, s.final_lower[1])
                          ELSE basic_lower
                      direction ==
                          IF s.direction = None
                          THEN (IF RLt(final_upper, RInt(close)) THEN 1 ELSE -1)
                          ELSE IF s.direction[1] = 1
                               THEN (IF RLt(RInt(close), final_lower) THEN -1 ELSE 1)
                               ELSE (IF RLt(final_upper, RInt(close)) THEN 1 ELSE -1)
                  IN  [s EXCEPT !.atr = Some(atr),
                                 !.tr_buf = IF s.atr = None THEN <<>> ELSE @,
                                 !.final_upper = Some(final_upper),
                                 !.final_lower = Some(final_lower),
                                 !.direction = Some(direction),
                                 !.prev_close = Some(close)]

\* SuperTrend.update: its return value, by the return statements of the code
STUpdateResult(s, high, low, close, P, M) ==
    IF s.prev_close = None THEN None
    ELSE IF s.atr = None /\ Len(s.tr_buf) + 1 < P THEN None
    ELSE LET n == STUpdate(s, high, low, close, P, M)
         IN  Some([value |-> IF n.direction[1] = 1 THEN n.final_lower[1] ELSE n.final_upper[1],
                   direction |-> n.direction[1]])

----------------------------------------------------------------------------
(* strategy/opening_range.py: OpeningRangeDetector *)

ORBInit == [candles |-> <<>>, h3 |-> None, l3 |-> None]

ORBIsComplete(o, N) == Len(o.candles) >= N

RECURSIVE MaxHigh(_)
MaxHigh(cs) == IF Len(cs) = 1 THEN cs[1].high ELSE Max2(Head(cs).high, MaxHigh(Tail(cs)))

RECURSIVE MinLow(_)
MinLow(cs) == IF Len(cs) = 1 THEN cs[1].low ELSE Min2(Head(cs).low, MinLow(Tail(cs)))

\* update widening the range with candles fed after completion (a faulty variant)
ORBUpdate_keeps_widening(o, candle, N) ==
    LET cs == Append(o.candles, candle)
    IN  IF Len(cs) >= N
        THEN [candles |-> IF Len(cs) = N THEN cs ELSE o.candles,
              h3 |-> Some(IF o.h3 = None THEN MaxHigh(cs) ELSE Max2(o.h3[1], candle.high)),
              l3 |-> Some(IF o.l3 = None THEN MinLow(cs) ELSE Min2(o.l3[1], candle.low))]
        ELSE [o EXCEPT !.candles = cs]

\* OpeningRangeDetector.update: the detector after the call
ORBUpdate(o, candle, N) ==
    IF ORBIsComplete(o, N) THEN o
    ELSE LET cs == Append(o.candles, candle)
         IN  IF Len(cs) = N
             THEN [candles |-> cs, h3 |-> Some(MaxHigh(cs)), l3 |-> Some(MinLow(cs))]
             ELSE [o EXCEPT !.candles = cs]

\* OpeningRangeDetector.update: its return value
ORBUpdateResult(o, candle, N) ==
    ORBIsComplete(o, N) \/ Len(o.candles) + 1 = N

----------------------------------------------------------------------------
(* strategy/breakout.py: BreakoutDetector *)

BreakoutDetector(h3, l3) ==
    [h3 |-> h3, l3 |-> l3, prev_candle |-> None, breakout |-> None, candle_idx |-> 0]

BreakoutIsConfirmed(d) == d.breakout /= None

\* update taking a close on H3 or L3 for a breakout (a faulty variant)
BreakoutUpdate_inclusive(d, candle) ==
    IF d.breakout /= None THEN d
    ELSE IF candle.close >= d.h3
    THEN [d EXCEPT !.candle_idx = @ + 1,
                   !.breakout = Some([side |-> "CALL",
                                      breakout_candle_idx |-> d.candle_idx + 1,
                                      h3 |-> d.h3, l3 |-> d.l3,
                                      h1 |-> candle.high,
                                      l1 |-> IF d.prev_candle /= None
                                             THEN d.prev_candle[1].low ELSE d.l3,
                                      confirmed_at |-> candle.timestamp])]
    ELSE IF candle.close <= d.l3
    THEN [d EXCEPT !.candle_idx = @ + 1,
                   !.breakout = Some([side |-> "PUT",
                                      breakout_candle_idx |-> d.candle_idx + 1,
                                      h3 |-> d.h3, l3 |-> d.l3,
                                      h1 |-> IF d.prev_candle /= None
                                             THEN d.prev_candle[1].high ELSE d.h3,
                                      l1 |-> candle.low,
                                      confirmed_at |-> candle.timestamp])]
    ELSE [d EXCEPT !.candle_idx = @ + 1, !.prev_candle = Some(candle)]

\* update without the already-confirmed guard (a faulty variant)
BreakoutUpdate_refires(d, candle) ==
    IF candle.close > d.h3
    THEN [d EXCEPT !.candle_idx = @ + 1,
                   !.breakout = Some([side |-> "CALL",
                                      breakout_candle_idx |-> d.candle_idx + 1,
                                      h3 |-> d.h3, l3 |-> d.l3,
                                      h1 |-> candle.high,
                                      l1 |-> IF d.prev_candle /= None
                                             THEN d.prev_candle[1].low ELSE d.l3,
                                      confirmed_at |-> candle.timestamp])]
    ELSE IF candle.close < d.l3
    THEN [d EXCEPT !.candle_idx = @ + 1,
                   !.breakout = Some([side |-> "PUT",
                                      breakout_candle_idx |-> d.candle_idx + 1,
                                      h3 |-> d.h3, l3 |-> d.l3,
                                      h1 |-> IF d.prev_candle /= None
                                             THEN d.prev_candle[1].high ELSE d.h3,
                                      l1 |-> candle.low,
                                      confirmed_at |-> candle.timestamp])]
    ELSE [d EXCEPT !.candle_idx = @ + 1, !.prev_candle = Some(candle)]

\* update taking the stop level from the wrong end of the previous candle (a faulty variant)
BreakoutUpdate_wrong_end(d, candle) ==
    IF d.breakout /= None THEN d
    ELSE IF candle.close > d.h3
    THEN [d EXCEPT !.candle_idx = @ + 1,
                   !.breakout = Some([side |-> "CALL",
                                      breakout_candle_idx |-> d.candle_idx + 1,
                                      h3 |-> d.h3, l3 |-> d.l3,
                                      h1 |-> candle.high,
                                      l1 |-> IF d.prev_candle /= None
                                             THEN d.prev_candle[1].high ELSE d.h3,
                                      confirmed_at |-> candle.timestamp])]
    ELSE IF candle.close < d.l3
    THEN [d EXCEPT !.candle_idx = @ + 1,
                   !.breakout = Some([side |-> "PUT",
                                      breakout_candle_idx |-> d.candle_idx + 1,
                                      h3 |-> d.h3, l3 |-> d.l3,
                                      h1 |-> IF d.prev_candle /= None
                                             THEN d.prev_candle[1].low ELSE d.l3,
                                      l1 |-> candle.low,
                                      confirmed_at |-> candle.timestamp])]
    ELSE [d EXCEPT !.candle_idx = @ + 1, !.prev_candle = Some(candle)]

\* BreakoutDetector.update: the detector after the call
BreakoutUpdate(d, candle) ==
    IF d.breakout /= None THEN d
    ELSE IF candle.close > d.h3
    THEN [d EXCEPT !.candle_idx = @ + 1,
                   !.breakout = Some([side |-> "CALL",
                                      breakout_candle_idx |-> d.candle_idx + 1,
                                      h3 |-> d.h3, l3 |-> d.l3,
                                      h1 |-> candle.high,
                                      l1 |-> IF d.prev_candle /= None
                                             THEN d.prev_candle[1].low ELSE d.l3,
                                      confirmed_at |-> candle.timestamp])]
    ELSE IF candle.close < d.l3
    THEN [d EXCEPT !.candle_idx = @ + 1,
                   !.breakout = Some([side |-> "PUT",
                                      breakout_candle_idx |-> d.candle_idx + 1,
                                      h3 |-> d.h3, l3 |-> d.l3,
                                      h1 |-> IF d.prev_candle /= None
                                             THEN d.prev_candle[1].high ELSE d.h3,
                                      l1 |-> candle.low,
                                      confirmed_at |-> candle.timestamp])]
    ELSE [d EXCEPT !.candle_idx = @ + 1, !.prev_candle = Some(candle)]

\* BreakoutDetector.update: its return value (the BreakoutInfo on first confirmation)
BreakoutUpdateResult(d, candle) ==
    IF d.breakout /= None THEN None ELSE BreakoutUpdate(d, candle).breakout

----------------------------------------------------------------------------
(* strategy/entry.py: EntrySignal *)

EntrySignal(rsi_min, rsi_max, no_entry_after, max_re_entries) ==
    [rsi_min |-> rsi_min, rsi_max |-> rsi_max, no_entry_after |-> no_entry_after,
     max_re_entries |-> max_re_entries]

\* check_entry with the RSI band taken exclusive of its ends (a faulty variant)
check_entry_exclusive_rsi(e, r, st, candle, bo, entries_this_side, current_time) ==
    IF current_time > e.no_entry_after THEN None
    ELSE IF entries_this_side >= e.max_re_entries THEN None
    ELSE IF RSIValue(r) = None \/ STValue(st) = None THEN None
    ELSE IF ~(RLt(RInt(e.rsi_min), RSIValue(r)[1]) /\ RLt(RSIValue(r)[1], RInt(e.rsi_max)))
    THEN None
    ELSE IF bo.side = "CALL"
    THEN (IF STValue(st)[1].direction /= 1 THEN None
          ELSE IF candle.high >= bo.h1 THEN Some("CALL") ELSE None)
    ELSE IF bo.side = "PUT"
    THEN (IF STValue(st)[1].direction /= -1 THEN None
          ELSE IF candle.low <= bo.l1 THEN Some("PUT") ELSE None)
    ELSE None

\* check_entry refusing only after more than max_re_entries entries (a faulty variant)
check_entry_allows_one_more(e, r, st, candle, bo, entries_this_side, current_time) ==
    IF current_time > e.no_entry_after THEN None
    ELSE IF entries_this_side > e.max_re_entries THEN None
    ELSE IF RSIValue(r) = None \/ STValue(st) = None THEN None
    ELSE IF ~(RLe(RInt(e.rsi_min), RSIValue(r)[1]) /\ RLe(RSIValue(r)[1], RInt(e.rsi_max)))
    THEN None
    ELSE IF bo.side = "CALL"
    THEN (IF STValue(st)[1].direction /= 1 THEN None
          ELSE IF candle.high >= bo.h1 THEN Some("CALL") ELSE None)
    ELSE IF bo.side = "PUT"
    THEN (IF STValue(st)[1].direction /= -1 THEN None
          ELSE IF candle.low <= bo.l1 THEN Some("PUT") ELSE None)
    ELSE None

\* EntrySignal.check_entry; r and st are the indicator objects it reads .value of
check_entry(e, r, st, candle, bo, entries_this_side, current_time) ==
    IF current_time > e.no_entry_after THEN None
    ELSE IF entries_this_side >= e.max_re_entries THEN None
    ELSE IF RSIValue(r) = None \/ STValue(st) = None THEN None
    ELSE IF ~(RLe(RInt(e.rsi_min), RSIValue(r)[1]) /\ RLe(RSIValue(r)[1], RInt(e.rsi_max)))
    THEN None
    ELSE IF bo.side = "CALL"
    THEN (IF STValue(st)[1].direction /= 1 THEN None
          ELSE IF candle.high >= bo.h1 THEN Some("CALL") ELSE None)
    ELSE IF bo.side = "PUT"
    THEN (IF STValue(st)[1].direction /= -1 THEN None
          ELSE IF candle.low <= bo.l1 THEN Some("PUT") ELSE None)
    ELSE None

\* the loop of check_sl_before_entry over the ticks, CALL side
RECURSIVE ScanCall(_, _, _)
ScanCall(ticks, entry_level, sl_level) ==
    IF ticks = <<>> THEN FALSE
    ELSE IF Head(ticks) <= sl_level THEN TRUE
    ELSE IF Head(ticks) >= entry_level THEN FALSE
    ELSE ScanCall(Tail(ticks), entry_level, sl_level)

\* the loop of check_sl_before_entry over the ticks, PUT side
RECURSIVE ScanPut(_, _, _)
ScanPut(ticks, entry_level, sl_level) ==
    IF ticks = <<>> THEN FALSE
    ELSE IF Head(ticks) >= sl_level THEN TRUE
    ELSE IF Head(ticks) <= entry_level THEN FALSE
    ELSE ScanPut(Tail(ticks), entry_level, sl_level)

\* EntrySignal.check_sl_before_entry
check_sl_before_entry(candle, bo) ==
    IF bo.side = "CALL" THEN ScanCall(synthetic_ticks(candle), bo.h1, bo.l1)
    ELSE IF bo.side = "PUT" THEN ScanPut(synthetic_ticks(candle), bo.l1, bo.h1)
    ELSE FALSE

----------------------------------------------------------------------------
(* strategy/exit.py: ExitManager *)

ExitSignal(reason, exit_premium) == [reason |-> reason, exit_premium |-> exit_premium]

\* _check_underlying_sl with strict comparisons (a faulty variant)
check_underlying_sl_strict(candle, side, h1, l1) ==
    IF side = "CALL" THEN candle.low < l1 ELSE candle.high > h1

\* ExitManager._check_underlying_sl
check_underlying_sl(candle, side, h1, l1) ==
    IF side = "CALL" THEN candle.low <= l1 ELSE candle.high >= h1

\* the ladder loop stopping at the first step it triggers (a faulty variant)
RECURSIVE LadderScan_first_step_only(_, _, _, _, _, _)
LadderScan_first_step_only(lad, i, premium_gain, entry_premium, last_idx, acc) ==
    IF i >= Len(lad) THEN acc
    ELSE IF i <= last_idx
    THEN LadderScan_first_step_only(lad, i + 1, premium_gain, entry_premium, last_idx, acc)
    ELSE IF premium_gain >= lad[i + 1].trigger
    THEN [regime |-> "B",
          sl |-> IF lad[i + 1].trail_to = -1 THEN acc.sl
                 ELSE Some(entry_premium + lad[i + 1].trail_to),
          idx |-> i]
    ELSE acc

\* the for loop of _check_ladder_transition from step i (0-based) on; acc is
\* (regime, new_sl, new_idx) so far
RECURSIVE LadderScan(_, _, _, _, _, _)
LadderScan(lad, i, premium_gain, entry_premium, last_idx, acc) ==
    IF i >= Len(lad) THEN acc
    ELSE IF i <= last_idx
    THEN LadderScan(lad, i + 1, premium_gain, entry_premium, last_idx, acc)
    ELSE IF premium_gain >= lad[i + 1].trigger
    THEN LadderScan(lad, i + 1, premium_gain, entry_premium, last_idx,
                    [regime |-> "B",
                     sl |-> IF lad[i + 1].trail_to = -1 THEN acc.sl
                            ELSE Some(entry_premium + lad[i + 1].trail_to),
                     idx |-> i])
    ELSE acc

\* _check_ladder_transition never moving a stop that is already set (a faulty
\* variant)
check_ladder_transition_keeps_stop(lad, premium_gain, entry_premium, current_sl, last_idx) ==
    LET r == LadderScan(lad, 0, premium_gain, entry_premium, last_idx,
                        [regime |-> IF last_idx < 0 THEN "A" ELSE "B",
                         sl |-> current_sl, idx |-> last_idx])
    IN  [r EXCEPT !.sl = IF current_sl /= None THEN current_sl ELSE @]

\* ExitManager._check_ladder_transition
check_ladder_transition(lad, premium_gain, entry_premium, current_sl, last_idx) ==
    LadderScan(lad, 0, premium_gain, entry_premium, last_idx,
               [regime |-> IF last_idx < 0 THEN "A" ELSE "B",
                sl |-> current_sl, idx |-> last_idx])

ExitResult(signal, regime, premium_sl, highest_gain, last_idx) ==
    [signal |-> signal, regime |-> regime, premium_sl |-> premium_sl,
     highest_gain |-> highest_gain, last_idx |-> last_idx]

\* the Regime B block with the trailing stop compared strictly (a faulty variant)
check_exit_B_strict_trail(lad, option_premium, entry_premium, premium_sl, highest_gain, last_ladder_idx) ==
    LET t == check_ladder_transition(lad, option_premium - entry_premium, entry_premium,
                                     premium_sl, last_ladder_idx)
        sl == IF t.sl /= None THEN t.sl ELSE premium_sl
        idx == IF t.idx > last_ladder_idx THEN t.idx ELSE last_ladder_idx
    IN  IF idx >= 0 /\ idx < Len(lad) /\ lad[idx + 1].trail_to = -1
        THEN ExitResult(Some(ExitSignal("PREMIUM_TARGET", option_premium)), "B", sl,
                        highest_gain, idx)
        ELSE IF sl /= None /\ option_premium < sl[1]
        THEN ExitResult(Some(ExitSignal("PREMIUM_TRAIL_SL", option_premium)), "B", sl,
                        highest_gain, idx)
        ELSE ExitResult(None, "B", sl, highest_gain, idx)

\* the Regime B block with the trailing stop compared before the terminal step
\* (a faulty variant)
check_exit_B_trail_first(lad, option_premium, entry_premium, premium_sl, highest_gain, last_ladder_idx) ==
    LET t == check_ladder_transition(lad, option_premium - entry_premium, entry_premium,
                                     premium_sl, last_ladder_idx)
        sl == IF t.sl /= None THEN t.sl ELSE premium_sl
        idx == IF t.idx > last_ladder_idx THEN t.idx ELSE last_ladder_idx
    IN  IF sl /= None /\ option_premium <= sl[1]
        THEN ExitResult(Some(ExitSignal("PREMIUM_TRAIL_SL", option_premium)), "B", sl,
                        highest_gain, idx)
        ELSE IF idx >= 0 /\ idx < Len(lad) /\ lad[idx + 1].trail_to = -1
        THEN ExitResult(Some(ExitSignal("PREMIUM_TARGET", option_premium)), "B", sl,
                        highest_gain, idx)
        ELSE ExitResult(None, "B", sl, highest_gain, idx)

\* the Regime B block of check_exit (exit.py:95-128), entered with the values the
\* Regime A block left
check_exit_B(lad, option_premium, entry_premium, premium_sl, highest_gain, last_ladder_idx) ==
    LET t == check_ladder_transition(lad, option_premium - entry_premium, entry_premium,
                                     premium_sl, last_ladder_idx)
        sl == IF t.sl /= None THEN t.sl ELSE premium_sl
        idx == IF t.idx > last_ladder_idx THEN t.idx ELSE last_ladder_idx
    IN  IF idx >= 0 /\ idx < Len(lad) /\ lad[idx + 1].trail_to = -1
        THEN ExitResult(Some(ExitSignal("PREMIUM_TARGET", option_premium)), "B", sl,
                        highest_gain, idx)
        ELSE IF sl /= None /\ option_premium <= sl[1]
        THEN ExitResult(Some(ExitSignal("PREMIUM_TRAIL_SL", option_premium)), "B", sl,
                        highest_gain, idx)
        ELSE ExitResult(None, "B", sl, highest_gain, idx)

\* check_exit returning right after the transition to Regime B, the Regime B block
\* left to the next call (a faulty variant)
check_exit_transition_then_return(lad, candle, option_premium, side, h1, l1, entry_premium, current_regime, premium_sl, highest_gain, last_ladder_idx) ==
    LET premium_gain == option_premium - entry_premium
        hg == IF premium_gain > highest_gain THEN premium_gain ELSE highest_gain
    IN  IF current_regime = "A"
        THEN IF check_underlying_sl(candle, side, h1, l1)
             THEN ExitResult(Some(ExitSignal("CANDLE_SL", option_premium)), "A",
                             premium_sl, hg, last_ladder_idx)
             ELSE LET t == check_ladder_transition(lad, premium_gain, entry_premium,
                                                    premium_sl, last_ladder_idx)
                  IN  IF t.regime = "B"
                      THEN ExitResult(None, "B", t.sl, hg, t.idx)
                      ELSE ExitResult(None, current_regime, premium_sl, hg, last_ladder_idx)
        ELSE IF current_regime = "B"
        THEN check_exit_B(lad, option_premium, entry_premium, premium_sl, hg,
                          last_ladder_idx)
        ELSE ExitResult(None, current_regime, premium_sl, hg, last_ladder_idx)

\* ExitManager.check_exit
check_exit(lad, candle, option_premium, side, h1, l1, entry_premium, current_regime, premium_sl, highest_gain, last_ladder_idx) ==
    LET premium_gain == option_premium - entry_premium
        hg == IF premium_gain > highest_gain THEN premium_gain ELSE highest_gain
    IN  IF current_regime = "A"
        THEN IF check_underlying_sl(candle, side, h1, l1)
             THEN ExitResult(Some(ExitSignal("CANDLE_SL", option_premium)), "A",
                             premium_sl, hg, last_ladder_idx)
             ELSE LET t == check_ladder_transition(lad, premium_gain, entry_premium,
                                                    premium_sl, last_ladder_idx)
                  IN  IF t.regime = "B"
                      THEN check_exit_B(lad, option_premium, entry_premium, t.sl, hg, t.idx)
                      ELSE ExitResult(None, current_regime, premium_sl, hg, last_ladder_idx)
        ELSE IF current_regime = "B"
        THEN check_exit_B(lad, option_premium, entry_premium, premium_sl, hg,
                          last_ladder_idx)
        ELSE ExitResult(None, current_regime, premium_sl, hg, last_ladder_idx)

\* ExitManager.check_force_exit
check_force_exit(option_premium) == ExitSignal("FORCE_EXIT", option_premium)

----------------------------------------------------------------------------
(* strategy/position.py: Position and PositionManager.  Fields that are only  *)
(* copied into the TradeRecord and read by no decision are left out: the      *)
(* strike and option symbol (session.py:177-194) and the underlying price at   *)
(* entry and exit.                                                             *)

\* models.py: Position()
PositionInit ==
    [state |-> "IDLE", side |-> None, breakout |-> None, entry_premium |-> 0,
     current_premium |-> 0, entry_time |-> None,
     option_type |-> "", lots |-> 1, premium_sl |-> None, highest_premium_gain |-> 0,
     last_triggered_ladder_idx |-> -1, call_entries_today |-> 0, put_entries_today |-> 0]

\* Position.is_active
is_active(pos) == pos.state \in {"ACTIVE_REGIME_A", "ACTIVE_REGIME_B"}

\* PositionManager.on_breakout
on_breakout(pos, info) ==
    IF pos.state /= "IDLE" THEN pos
    ELSE [pos EXCEPT !.state = "WAITING_ENTRY", !.breakout = Some(info),
                     !.side = Some(info.side)]

\* on_entry counting the entry on both sides (a faulty variant)
on_entry_counts_both_sides(pos, side, entry_premium, entry_time, option_type) ==
    [pos EXCEPT !.state = "ACTIVE_REGIME_A",
                !.side = Some(side),
                !.entry_premium = entry_premium,
                !.current_premium = entry_premium,
                !.entry_time = Some(entry_time),
                !.option_type = option_type,
                !.lots = Lots,
                !.premium_sl = None,
                !.highest_premium_gain = 0,
                !.last_triggered_ladder_idx = -1,
                !.call_entries_today = @ + 1,
                !.put_entries_today = @ + 1]

\* PositionManager.on_entry
on_entry(pos, side, entry_premium, entry_time, option_type) ==
    [pos EXCEPT !.state = "ACTIVE_REGIME_A",
                !.side = Some(side),
                !.entry_premium = entry_premium,
                !.current_premium = entry_premium,
                !.entry_time = Some(entry_time),
                !.option_type = option_type,
                !.lots = Lots,
                !.premium_sl = None,
                !.highest_premium_gain = 0,
                !.last_triggered_ladder_idx = -1,
                !.call_entries_today = IF side = "CALL" THEN @ + 1 ELSE @,
                !.put_entries_today = IF side = "CALL" THEN @ ELSE @ + 1]

\* PositionManager.on_regime_change
on_regime_change(pos, regime) ==
    IF regime = "B" THEN [pos EXCEPT !.state = "ACTIVE_REGIME_B"]
    ELSE IF regime = "A" THEN [pos EXCEPT !.state = "ACTIVE_REGIME_A"]
    ELSE pos

\* on_exit with the P&L of one unit instead of lot_size * lots (a faulty variant)
on_exit_record_per_unit(pos, counter, exit_premium, exit_time, exit_reason) ==
    LET gross_pnl == exit_premium - pos.entry_premium IN
    [trade_id |-> counter + 1,
     date |-> exit_time,
     side |-> IF pos.side /= None THEN pos.side[1] ELSE "CALL",
     entry_time |-> IF pos.entry_time /= None THEN pos.entry_time[1] ELSE exit_time,
     exit_time |-> exit_time,
     h3 |-> IF pos.breakout /= None THEN pos.breakout[1].h3 ELSE 0,
     l3 |-> IF pos.breakout /= None THEN pos.breakout[1].l3 ELSE 0,
     h1 |-> IF pos.breakout /= None THEN pos.breakout[1].h1 ELSE 0,
     l1 |-> IF pos.breakout /= None THEN pos.breakout[1].l1 ELSE 0,
     option_type |-> pos.option_type,
     entry_premium |-> pos.entry_premium,
     exit_premium |-> exit_premium,
     lots |-> Lots,
     lot_size |-> LotSize,
     gross_pnl |-> gross_pnl,
     charges |-> 0,
     net_pnl |-> gross_pnl,
     exit_reason |-> exit_reason,
     re_entry_number |-> IF pos.side = Some("CALL") THEN pos.call_entries_today - 1
                         ELSE pos.put_entries_today - 1,
     regime_at_exit |-> IF pos.state = "ACTIVE_REGIME_B" THEN "B" ELSE "A"]

\* PositionManager.on_exit: the TradeRecord it builds; counter is _trade_counter
\* before the call
on_exit_record(pos, counter, exit_premium, exit_time, exit_reason) ==
    LET gross_pnl == (exit_premium - pos.entry_premium) * LotSize * Lots IN
    [trade_id |-> counter + 1,
     date |-> exit_time,
     side |-> IF pos.side /= None THEN pos.side[1] ELSE "CALL",
     entry_time |-> IF pos.entry_time /= None THEN pos.entry_time[1] ELSE exit_time,
     exit_time |-> exit_time,
     h3 |-> IF pos.breakout /= None THEN pos.breakout[1].h3 ELSE 0,
     l3 |-> IF pos.breakout /= None THEN pos.breakout[1].l3 ELSE 0,
     h1 |-> IF pos.breakout /= None THEN pos.breakout[1].h1 ELSE 0,
     l1 |-> IF pos.breakout /= None THEN pos.breakout[1].l1 ELSE 0,
     option_type |-> pos.option_type,
     entry_premium |-> pos.entry_premium,
     exit_premium |-> exit_premium,
     lots |-> Lots,
     lot_size |-> LotSize,
     gross_pnl |-> gross_pnl,
     charges |-> 0,
     net_pnl |-> gross_pnl,
     exit_reason |-> exit_reason,
     re_entry_number |-> IF pos.side = Some("CALL") THEN pos.call_entries_today - 1
                         ELSE pos.put_entries_today - 1,
     regime_at_exit |-> IF pos.state = "ACTIVE_REGIME_B" THEN "B" ELSE "A"]

\* on_exit leaving the state as it was (a faulty variant)
on_exit_position_keeps_state(pos) ==
    [pos EXCEPT !.entry_premium = 0, !.current_premium = 0,
                !.entry_time = None, !.premium_sl = None, !.highest_premium_gain = 0,
                !.last_triggered_ladder_idx = -1]

\* on_exit leaving the premium stop in place (a faulty variant)
on_exit_position_keeps_stop(pos) ==
    [pos EXCEPT !.state = "IDLE", !.entry_premium = 0, !.current_premium = 0,
                !.entry_time = None, !.highest_premium_gain = 0,
                !.last_triggered_ladder_idx = -1]

\* on_exit dropping the breakout reference as well (a faulty variant)
on_exit_position_drops_breakout(pos) ==
    [pos EXCEPT !.state = "IDLE", !.breakout = None, !.entry_premium = 0,
                !.current_premium = 0, !.entry_time = None, !.premium_sl = None,
                !.highest_premium_gain = 0, !.last_triggered_ladder_idx = -1]

\* PositionManager.on_exit: the position after the call
on_exit_position(pos) ==
    [pos EXCEPT !.state = "IDLE", !.entry_premium = 0, !.current_premium = 0,
                !.entry_time = None, !.premium_sl = None, !.highest_premium_gain = 0,
                !.last_triggered_ladder_idx = -1]

\* PositionManager.entries_for_side
entries_for_side(pos, side) ==
    IF side = "CALL" THEN pos.call_entries_today ELSE pos.put_entries_today

\* PositionManager.reset_for_new_day: the position after the call
reset_for_new_day == PositionInit

----------------------------------------------------------------------------
(* strategy/session.py: TradingSession.  S is the session object (its fields  *)
(* as a record) with ret, the value the running process_candle call returns.  *)

Session ==
    [rsi |-> rsi, supertrend |-> supertrend, orb |-> orb, breakout |-> breakout,
     entry |-> entry, position |-> position, trade_counter |-> trade_counter,
     trades |-> trades,
     day_done |-> day_done, ret |-> None]

\* TradingSession._execute_entry
execute_entry(S, candle, option_premium, side) ==
    [S EXCEPT !.position = on_entry(S.position, side, option_premium, candle.timestamp,
                                    IF side = "CALL" THEN "CE" ELSE "PE")]

\* the write-back without the ladder index (a faulty variant)
persist_exit_result_without_idx(pos, r, current_regime) ==
    LET p1 == [pos EXCEPT !.premium_sl = r.premium_sl,
                          !.highest_premium_gain = r.highest_gain]
    IN  IF r.regime /= current_regime THEN on_regime_change(p1, r.regime) ELSE p1

\* the position with the values check_exit returned written back (session.py:234-239)
persist_exit_result(pos, r, current_regime) ==
    LET p1 == [pos EXCEPT !.premium_sl = r.premium_sl,
                          !.highest_premium_gain = r.highest_gain,
                          !.last_triggered_ladder_idx = r.last_idx]
    IN  IF r.regime /= current_regime THEN on_regime_change(p1, r.regime) ELSE p1

\* on_exit counting trades in one counter shared by every session instead of the
\* manager's own (a faulty variant)
close_position_shared_counter(S, pos, exit_premium, candle, exit_reason) ==
    LET trade == on_exit_record(pos, trade_counter, exit_premium, candle.timestamp, exit_reason)
    IN  [S EXCEPT !.position = on_exit_position(pos),
                  !.trade_counter = trade_counter + 1,
                  !.trades = Append(@, trade),
                  !.ret = Some(trade)]

\* the session after PositionManager.on_exit and the append to _trades
close_position(S, pos, exit_premium, candle, exit_reason) ==
    LET trade == on_exit_record(pos, S.trade_counter, exit_premium, candle.timestamp,
                                exit_reason)
    IN  [S EXCEPT !.position = on_exit_position(pos),
                  !.trade_counter = @ + 1,
                  !.trades = Append(@, trade),
                  !.ret = Some(trade)]

\* _check_exit closing the position as it was before the write-back (a faulty
\* variant)
session_check_exit_closes_stale(S, candle, option_premium) ==
    LET pos == S.position
        bo == pos.breakout[1]
        current_regime == IF pos.state = "ACTIVE_REGIME_B" THEN "B" ELSE "A"
        r == check_exit(config.trailing_ladder, candle, option_premium, pos.side[1], bo.h1, bo.l1,
                        pos.entry_premium, current_regime, pos.premium_sl,
                        pos.highest_premium_gain, pos.last_triggered_ladder_idx)
        p1 == persist_exit_result(pos, r, current_regime)
    IN  IF r.signal /= None
        THEN close_position(S, pos, r.signal[1].exit_premium, candle, r.signal[1].reason)
        ELSE [S EXCEPT !.position = p1]

\* TradingSession._check_exit
session_check_exit(S, candle, option_premium) ==
    LET pos == S.position
        bo == pos.breakout[1]
        current_regime == IF pos.state = "ACTIVE_REGIME_B" THEN "B" ELSE "A"
        r == check_exit(config.trailing_ladder, candle, option_premium, pos.side[1], bo.h1, bo.l1,
                        pos.entry_premium, current_regime, pos.premium_sl,
                        pos.highest_premium_gain, pos.last_triggered_ladder_idx)
        p1 == persist_exit_result(pos, r, current_regime)
    IN  IF r.signal /= None
        THEN close_position(S, p1, r.signal[1].exit_premium, candle, r.signal[1].reason)
        ELSE [S EXCEPT !.position = p1]

\* TradingSession._handle_force_exit; option_premium is None or Some(premium)
handle_force_exit(S, candle, option_premium) ==
    IF ~is_active(S.position) THEN S
    ELSE LET premium == IF option_premium /= None THEN option_premium[1] ELSE 0
         IN  close_position(S, S.position, check_force_exit(premium).exit_premium,
                            candle, "FORCE_EXIT")

\* the force-exit test one minute late (a faulty variant)
force_exit_due_late(candle) == candle.timestamp > ForceExitTime

\* the force-exit test of process_candle (session.py:123)
force_exit_due(candle) == candle.timestamp >= ForceExitTime

\* config.strategy.rsi_period as the session reads it (session.py:58): the
\* period a configuration names, RsiPeriod where it names none
rsi_period == IF "rsi_period" \in DOMAIN config THEN config.rsi_period ELSE RsiPeriod

\* Phase 1 of process_candle: opening-range accumulation (session.py:103-120)
orb_phase(S, candle) ==
    LET completed == ORBUpdateResult(S.orb, candle, OrbCandles)
        o == ORBUpdate(S.orb, candle, OrbCandles)
    IN  [S EXCEPT !.orb = o,
                  !.breakout = IF completed THEN Some(BreakoutDetector(o.h3[1], o.l3[1]))
                               ELSE @,
                  !.entry = IF completed
                            THEN Some(EntrySignal(RsiEntryMin, RsiEntryMax, NoNewEntryAfter,
                                                  config.max_re_entries_per_side))
                            ELSE @]

\* Phase 2 of process_candle: breakout detection (session.py:128-136)
breakout_phase(S, candle) ==
    IF S.breakout /= None /\ ~BreakoutIsConfirmed(S.breakout[1])
    THEN LET info == BreakoutUpdateResult(S.breakout[1], candle)
         IN  [S EXCEPT !.breakout = Some(BreakoutUpdate(S.breakout[1], candle)),
                       !.position = IF info /= None THEN on_breakout(@, info[1]) ELSE @]
    ELSE S

\* Phase 3 of process_candle: exit check (session.py:138-143)
exit_phase(S, candle, option_premium) ==
    IF is_active(S.position) /\ option_premium /= None
    THEN session_check_exit(S, candle, option_premium[1])
    ELSE S

\* the entry check refusing a re-entry after a trade whose net P&L is negative
\* (a faulty variant: it reads the emitted TradeRecords)
entry_phase_stops_after_net_loss(S, candle, option_premium) ==
    IF /\ ~is_active(S.position)
       /\ S.breakout /= None
       /\ BreakoutIsConfirmed(S.breakout[1])
       /\ S.entry /= None
       /\ option_premium /= None
       /\ (S.trades = <<>> \/ ~RLt(S.trades[Len(S.trades)].net_pnl, RInt(0)))
    THEN LET bo == S.breakout[1].breakout[1]
             entry_side == check_entry(S.entry[1], S.rsi, S.supertrend, candle, bo,
                                       entries_for_side(S.position, bo.side),
                                       candle.timestamp)
         IN  IF ~check_sl_before_entry(candle, bo) /\ entry_side /= None
             THEN execute_entry(S, candle, option_premium[1], entry_side[1])
             ELSE S
    ELSE S

\* Phase 4 of process_candle: entry check (session.py:145-164)
entry_phase(S, candle, option_premium) ==
    IF /\ ~is_active(S.position)
       /\ S.breakout /= None
       /\ BreakoutIsConfirmed(S.breakout[1])
       /\ S.entry /= None
       /\ option_premium /= None
    THEN LET bo == S.breakout[1].breakout[1]
             entry_side == check_entry(S.entry[1], S.rsi, S.supertrend, candle, bo,
                                       entries_for_side(S.position, bo.side),
                                       candle.timestamp)
         IN  IF ~check_sl_before_entry(candle, bo) /\ entry_side /= None
             THEN execute_entry(S, candle, option_premium[1], entry_side[1])
             ELSE S
    ELSE S

RECURSIVE warm_up_through_process_candle(_, _)
\* warm_up feeding the candles to the opening range too (a faulty variant)
warm_up_through_process_candle(S, candles) ==
    IF candles = <<>> THEN S
    ELSE LET c == Head(candles)
         IN  warm_up_through_process_candle(
                 [S EXCEPT !.rsi = RSIUpdate(@, c.close, rsi_period),
                           !.supertrend = STUpdate(@, c.high, c.low, c.close, SupertrendPeriod, SupertrendMultiplier),
                           !.orb = ORBUpdate(@, c, OrbCandles)],
                 Tail(candles))

RECURSIVE warm_up(_, _)
\* TradingSession.warm_up: the indicators fed the prior day's candles
warm_up(S, candles) ==
    IF candles = <<>> THEN S
    ELSE LET c == Head(candles)
         IN  warm_up([S EXCEPT !.rsi = RSIUpdate(@, c.close, rsi_period),
                               !.supertrend = STUpdate(@, c.high, c.low, c.close, SupertrendPeriod, SupertrendMultiplier)],
                     Tail(candles))

\* process_candle ending the day at the cutoff only when it had a position to
\* close (a faulty variant)
process_candle_done_only_with_position(S, candle, option_premium) ==
    IF S.day_done THEN S
    ELSE LET S1 == [S EXCEPT !.rsi = RSIUpdate(@, candle.close, rsi_period),
                  !.supertrend = STUpdate(@, candle.high, candle.low, candle.close,
                                                     SupertrendPeriod, SupertrendMultiplier)]
         IN  IF ~ORBIsComplete(S1.orb, OrbCandles)
             THEN orb_phase(S1, candle)
             ELSE IF force_exit_due(candle)
             THEN [handle_force_exit(S1, candle, option_premium) EXCEPT !.day_done = is_active(S1.position)]
             ELSE LET S3 == exit_phase(breakout_phase(S1, candle), candle, option_premium)
                  IN  IF S3.ret /= None THEN S3
                      ELSE entry_phase(S3, candle, option_premium)

\* process_candle going on to the later phases on the candle that completes the
\* opening range (a faulty variant)
process_candle_continues_after_orb(S, candle, option_premium) ==
    IF S.day_done THEN S
    ELSE LET S1 == [S EXCEPT !.rsi = RSIUpdate(@, candle.close, rsi_period),
                  !.supertrend = STUpdate(@, candle.high, candle.low, candle.close,
                                                     SupertrendPeriod, SupertrendMultiplier)]
             S2 == IF ~ORBIsComplete(S1.orb, OrbCandles) THEN orb_phase(S1, candle) ELSE S1
         IN  IF ~ORBIsComplete(S2.orb, OrbCandles)
             THEN S2
             ELSE IF force_exit_due(candle)
             THEN [handle_force_exit(S2, candle, option_premium) EXCEPT !.day_done = TRUE]
             ELSE LET S3 == exit_phase(breakout_phase(S2, candle), candle, option_premium)
                  IN  IF S3.ret /= None THEN S3
                      ELSE entry_phase(S3, candle, option_premium)

\* process_candle going on to the entry check after an exit on the same candle
\* (a faulty variant)
process_candle_enters_after_exit(S, candle, option_premium) ==
    IF S.day_done THEN S
    ELSE LET S1 == [S EXCEPT !.rsi = RSIUpdate(@, candle.close, rsi_period),
                  !.supertrend = STUpdate(@, candle.high, candle.low, candle.close,
                                                     SupertrendPeriod, SupertrendMultiplier)]
         IN  IF ~ORBIsComplete(S1.orb, OrbCandles)
             THEN orb_phase(S1, candle)
             ELSE IF force_exit_due(candle)
             THEN [handle_force_exit(S1, candle, option_premium) EXCEPT !.day_done = TRUE]
             ELSE entry_phase(exit_phase(breakout_phase(S1, candle), candle, option_premium),
                              candle, option_premium)

\* TradingSession.process_candle: the session after the call, ret its return value
process_candle(S, candle, option_premium) ==
    IF S.day_done THEN S
    ELSE LET S1 == [S EXCEPT !.rsi = RSIUpdate(@, candle.close, rsi_period),
                  !.supertrend = STUpdate(@, candle.high, candle.low, candle.close,
                                                     SupertrendPeriod, SupertrendMultiplier)]
         IN  IF ~ORBIsComplete(S1.orb, OrbCandles)
             THEN orb_phase(S1, candle)
             ELSE IF force_exit_due(candle)
             THEN [handle_force_exit(S1, candle, option_premium) EXCEPT !.day_done = TRUE]
             ELSE LET S3 == exit_phase(breakout_phase(S1, candle), candle, option_premium)
                  IN  IF S3.ret /= None THEN S3
                      ELSE entry_phase(S3, candle, option_premium)

----------------------------------------------------------------------------
(* The inputs: one completed candle per call, in timestamp order *)

\* the well-formed candle shapes: low <= open, close <= high
Shapes ==
    {x \in [open : SessionPrices, high : SessionPrices, low : SessionPrices,
           close : SessionPrices] :
        x.low <= x.open /\ x.low <= x.close /\ x.open <= x.high /\ x.close <= x.high}

\* the candles stamped t
Candles(t) == {Candle(t, x.open, x.high, x.low, x.close) : x \in Shapes}

\* what option_premium can be: None or a premium
PremiumInputs == {None} \cup {Some(x) : x \in SessionPremiums}

\* the time the next candle carries: a session starts at any minute and gets one
\* candle per minute from then on
NextTimes ==
    IF call = None THEN 1..MaxTime
    ELSE {t \in 1..MaxTime : t = call[1].timestamp + 1}

----------------------------------------------------------------------------
(* The session as a state machine *)

\* TradingSession.__init__ and PositionManager.__init__
SessionInit ==
    /\ rsi = RSIReset
    /\ supertrend = STReset
    /\ orb = ORBInit
    /\ breakout = None
    /\ entry = None
    /\ position = PositionInit
    /\ trade_counter = 0
    /\ trades = <<>>
    /\ day_done = FALSE
    /\ call = None

Init ==
    /\ SessionInit
    /\ config \in {AppConfig(DefaultLadder, m) : m \in ReEntryLimits}
    /\ fn = None

\* one call process_candle(candle, option_premium)
ProcessCandle(candle, option_premium) ==
    \E T \in {process_candle(Session, candle, option_premium)} :
    /\ rsi' = T.rsi
    /\ supertrend' = T.supertrend
    /\ orb' = T.orb
    /\ breakout' = T.breakout
    /\ entry' = T.entry
    /\ position' = T.position
    /\ trade_counter' = T.trade_counter
    /\ trades' = T.trades
    /\ day_done' = T.day_done
    /\ call' = Some([timestamp |-> candle.timestamp, option_premium |-> option_premium,
                     ret |-> T.ret])
    /\ UNCHANGED <<config, fn>>

Next ==
    \E t \in NextTimes : \E candle \in Candles(t) : \E p \in PremiumInputs :
        ProcessCandle(candle, p)

Spec == Init /\ [][Next]_vars

----------------------------------------------------------------------------
(* ExitManager.check_exit on its own: the ladder and the arguments are drawn *)
(* from small sets, one call is made, fn holds the arguments and the result  *)

\* the ladders an ExitManager is built with: strictly increasing triggers, the
\* terminal step (trail_to = -1), if any, last
ExitLadders ==
    { <<TrailingStep(1, 0), TrailingStep(2, 1), TrailingStep(3, -1)>>,
      <<TrailingStep(1, 0), TrailingStep(3, 2)>>,
      <<TrailingStep(2, -1)>> }

\* the bars a component reads only the high and the low of
Bars ==
    {Candle(1, x[1], x[2], x[1], x[2]) :
        x \in {y \in (1..MaxPrice) \X (1..MaxPrice) : y[1] <= y[2]}}

\* the arguments of check_exit for a manager built with ladder lad
CheckExitArgs(lad) ==
    [candle : Bars,
     option_premium : 1..MaxPremium,
     side : {"CALL", "PUT"},
     h1 : 1..MaxPrice,
     l1 : 1..MaxPrice,
     entry_premium : {1, 2},
     current_regime : {"A", "B"},
     premium_sl : {None} \cup {Some(x) : x \in 1..MaxPremium},
     highest_gain : {0, 2},
     last_ladder_idx : -1..(Len(lad) - 1)]

InitExit ==
    /\ SessionInit
    /\ config \in {AppConfig(lad, 1) : lad \in ExitLadders}
    /\ fn \in {[name |-> "check_exit", args |-> a, done |-> FALSE, result |-> None] :
                 a \in CheckExitArgs(config.trailing_ladder)}

\* one call check_exit(...)
CheckExit ==
    /\ fn.name = "check_exit"
    /\ ~fn.done
    /\ fn' = [fn EXCEPT !.done = TRUE,
                        !.result = check_exit(config.trailing_ladder, fn.args.candle,
                                              fn.args.option_premium, fn.args.side,
                                              fn.args.h1, fn.args.l1, fn.args.entry_premium,
                                              fn.args.current_regime, fn.args.premium_sl,
                                              fn.args.highest_gain, fn.args.last_ladder_idx)]
    /\ UNCHANGED <<sessionVars, config>>

NextExit == CheckExit

SpecExit == InitExit /\ [][NextExit]_vars

----------------------------------------------------------------------------
(* EntrySignal.check_entry on its own *)

\* the indicator objects as check_entry can find them: not warmed up, or with
\* averages 0..3 (RSI 0, 25, 33.3, 40, 50, 60, 66.7, 75, 100)
RsiStates ==
    {RSIReset} \cup
    {[RSIReset EXCEPT !.prev_close = Some(1), !.avg_gain = Some(RInt(g)),
                      !.avg_loss = Some(RInt(l))] : g \in 0..3, l \in 0..3}

SupertrendStates ==
    {STReset} \cup
    {[STReset EXCEPT !.prev_close = Some(1), !.atr = Some(RInt(1)),
                     !.final_upper = Some(RInt(2)), !.final_lower = Some(RInt(0)),
                     !.direction = Some(d)] : d \in {1, -1}}

\* a confirmed breakout as check_entry reads it
BreakoutInfos ==
    {[side |-> sd, breakout_candle_idx |-> 1, h3 |-> 1, l3 |-> 1, h1 |-> h, l1 |-> l,
      confirmed_at |-> 1] : sd \in {"CALL", "PUT"}, h \in 1..MaxPrice, l \in 1..MaxPrice}

CheckEntryArgs ==
    [e : {EntrySignal(40, 60, NoNewEntryAfter, m) : m \in ReEntryLimits},
     r : RsiStates,
     st : SupertrendStates,
     candle : Bars,
     bo : BreakoutInfos,
     entries_this_side : 0..3,
     current_time : 1..MaxTime]

InitEntry ==
    /\ SessionInit
    /\ config \in {AppConfig(DefaultLadder, m) : m \in ReEntryLimits}
    /\ fn \in {[name |-> "check_entry", args |-> a, done |-> FALSE, result |-> None] :
                 a \in {x \in CheckEntryArgs : x.e.max_re_entries = config.max_re_entries_per_side}}

\* one call check_entry(...)
CheckEntry ==
    /\ fn.name = "check_entry"
    /\ ~fn.done
    /\ fn' = [fn EXCEPT !.done = TRUE,
                        !.result = check_entry(fn.args.e, fn.args.r, fn.args.st,
                                               fn.args.candle, fn.args.bo,
                                               fn.args.entries_this_side,
                                               fn.args.current_time)]
    /\ UNCHANGED <<sessionVars, config>>

NextEntry == CheckEntry

SpecEntry == InitEntry /\ [][NextEntry]_vars

----------------------------------------------------------------------------
(* Properties of the session (Spec) *)

\* C1: at any time the number of entries taken (call_entries_today +
\* put_entries_today) minus the number of TradeRecords in trades is 0 or 1, and it
\* is 1 exactly when the position state is ACTIVE_REGIME_A or ACTIVE_REGIME_B.
C1_AtMostOneOpenPosition ==
    LET open == position.call_entries_today + position.put_entries_today - Len(trades)
    IN  /\ open \in {0, 1}
        /\ (open = 1) <=> (position.state \in {"ACTIVE_REGIME_A", "ACTIVE_REGIME_B"})

\* C1's case: a position is open again after an earlier trade was closed
C1_Witness ==
    /\ Len(trades) >= 1
    /\ position.state \in {"ACTIVE_REGIME_A", "ACTIVE_REGIME_B"}
    /\ position.call_entries_today + position.put_entries_today = Len(trades) + 1

\* C6 as stated: a post-opening-range candle at or after force_exit_time that
\* finds a position active makes process_candle return a TradeRecord with
\* exit_reason FORCE_EXIT and exit_premium equal to the premium supplied for that
\* candle, the regime of the record being the one the position was in (nothing is
\* evaluated on that candle); afterwards the position is not active and the day is
\* done.
C6_ForceExitAtSuppliedPremium ==
    [][ (/\ call' /= call
         /\ ~day_done
         /\ ORBIsComplete(orb, OrbCandles)
         /\ is_active(position)
         /\ call'[1].timestamp >= ForceExitTime)
        => /\ call'[1].ret /= None
           /\ call'[1].ret[1].exit_reason = "FORCE_EXIT"
           /\ Some(call'[1].ret[1].exit_premium) = call'[1].option_premium
           /\ call'[1].ret[1].regime_at_exit =
                  (IF position.state = "ACTIVE_REGIME_B" THEN "B" ELSE "A")
           /\ trades' = Append(trades, call'[1].ret[1])
           /\ ~is_active(position')
           /\ day_done' ]_vars

\* C7: is_done is terminal.  It becomes true on the first post-opening-range
\* candle with time >= force_exit_time, whether or not a position was open, and
\* on no other candle; it never becomes false again; every later process_candle
\* call returns None and leaves trades, the position, the opening range, the
\* breakout and both indicators unchanged.
C7_DoneIsTerminal ==
    [][ call' /= call =>
        /\ day_done =>
              /\ day_done'
              /\ call'[1].ret = None
              /\ UNCHANGED <<rsi, supertrend, orb, breakout, entry, position,
                             trade_counter, trades>>
        /\ ~day_done =>
              (day_done' <=> (/\ ORBIsComplete(orb, OrbCandles)
                              /\ call'[1].timestamp >= ForceExitTime)) ]_vars

\* C7's case: a call with a premium made after the day was done, in a session
\* that traded, has returned None
C7_Witness ==
    /\ day_done
    /\ call /= None
    /\ call[1].timestamp > ForceExitTime
    /\ call[1].option_premium /= None
    /\ call[1].ret = None
    /\ Len(trades) >= 1

\* C8 as stated: a process_candle call made with option_premium = None opens no
\* position, closes no position, returns no TradeRecord and leaves trades and the
\* entry counters unchanged (so no TradeRecord ever holds a stand-in premium).
C8_NoPremiumDefers ==
    [][ (call' /= call /\ call'[1].option_premium = None)
        => /\ call'[1].ret = None
           /\ trades' = trades
           /\ is_active(position') <=> is_active(position)
           /\ position'.call_entries_today = position.call_entries_today
           /\ position'.put_entries_today = position.put_entries_today ]_vars

\* C10 as stated: with max_re_entries_per_side = M an entry is still permitted
\* when M entries have already been taken on the breakout side: a call that finds
\* the session flat with exactly M entries taken, and every other gate of the
\* entry phase open (premium supplied, cutoffs, stop not hit first, RSI band,
\* SuperTrend direction, price crossing), opens the position.
C10_EntryPermittedAfterMEntries ==
    [][ (/\ call' /= call
         /\ ~day_done
         /\ ORBIsComplete(orb, OrbCandles)
         /\ ~is_active(position)
         /\ call'[1].option_premium /= None
         /\ call'[1].timestamp < ForceExitTime
         /\ call'[1].timestamp <= NoNewEntryAfter
         /\ breakout' /= None
         /\ BreakoutIsConfirmed(breakout'[1])
         /\ RSIValue(rsi') /= None
         /\ STValue(supertrend') /= None
         /\ LET bo == breakout'[1].breakout[1]
            IN  /\ entries_for_side(position, bo.side) = config.max_re_entries_per_side
                /\ RLe(RInt(RsiEntryMin), RSIValue(rsi')[1])
                /\ RLe(RSIValue(rsi')[1], RInt(RsiEntryMax))
                /\ STValue(supertrend')[1].direction = (IF bo.side = "CALL" THEN 1 ELSE -1)
                /\ \E candle \in Candles(call'[1].timestamp) :
                      /\ ProcessCandle(candle, call'[1].option_premium)
                      /\ ~check_sl_before_entry(candle, bo)
                      /\ IF bo.side = "CALL" THEN candle.high >= bo.h1
                         ELSE candle.low <= bo.l1)
        => is_active(position') ]_vars

----------------------------------------------------------------------------
(* Properties of ExitManager.check_exit (SpecExit) *)

\* C2: check_exit returns CANDLE_SL if and only if current_regime is "A" and the
\* candle breaches the structural stop (CALL: low <= L1; PUT: high >= H1).  In
\* Regime A the breach gives CANDLE_SL whatever the premium, premium_sl,
\* highest_gain and ladder index are, with the regime returned "A" and premium_sl
\* and the ladder index returned unchanged; in Regime B a breach never gives it.
C2_CandleStopOnlyInRegimeA ==
    fn.done =>
        LET a == fn.args
            r == fn.result
            breach == IF a.side = "CALL" THEN a.candle.low <= a.l1
                      ELSE a.candle.high >= a.h1
            candle_sl == r.signal /= None /\ r.signal[1].reason = "CANDLE_SL"
        IN  /\ candle_sl <=> (a.current_regime = "A" /\ breach)
            /\ candle_sl => /\ r.regime = "A"
                            /\ r.premium_sl = a.premium_sl
                            /\ r.last_idx = a.last_ladder_idx

\* C2's case: Regime A, the stop breached on a candle whose gain crosses the
\* first ladder trigger, and CANDLE_SL returned
C2_Witness ==
    /\ fn.done
    /\ fn.args.current_regime = "A"
    /\ fn.args.last_ladder_idx = -1
    /\ fn.args.side = "CALL"
    /\ fn.args.candle.low <= fn.args.l1
    /\ fn.args.option_premium - fn.args.entry_premium >= config.trailing_ladder[1].trigger
    /\ fn.result.signal /= None
    /\ fn.result.signal[1].reason = "CANDLE_SL"

\* C3: in Regime A with last_ladder_idx = -1 and no structural stop hit: when the
\* gain (option_premium - entry_premium) is >= the first trigger, the returned
\* regime is "B", the returned index is the highest i with triggers 0..i all <=
\* the gain, and the returned premium_sl is entry_premium + trail_to of the highest
\* triggered non-terminal step (premium_sl as passed if only a terminal step was
\* triggered); when the gain is below the first trigger the regime stays "A" and
\* premium_sl and the index are returned unchanged.
C3_LadderTransitionFromRegimeA ==
    (/\ fn.done
     /\ fn.args.current_regime = "A"
     /\ fn.args.last_ladder_idx = -1
     /\ ~(IF fn.args.side = "CALL" THEN fn.args.candle.low <= fn.args.l1
          ELSE fn.args.candle.high >= fn.args.h1))
    => LET a == fn.args
           r == fn.result
           lad == config.trailing_ladder
           gain == a.option_premium - a.entry_premium
           triggered == {i \in 0..(Len(lad) - 1) :
                            \A j \in 0..i : lad[j + 1].trigger <= gain}
           trailing == {i \in triggered : lad[i + 1].trail_to /= -1}
           top(S) == CHOOSE i \in S : \A j \in S : j <= i
       IN  IF gain >= lad[1].trigger
           THEN /\ r.regime = "B"
                /\ r.last_idx = top(triggered)
                /\ r.premium_sl = IF trailing = {} THEN a.premium_sl
                                  ELSE Some(a.entry_premium + lad[top(trailing) + 1].trail_to)
           ELSE /\ r.regime = "A"
                /\ r.premium_sl = a.premium_sl
                /\ r.last_idx = -1
                /\ r.signal = None

\* C3's case: from Regime A one candle's gain crosses two trailing steps at once
C3_Witness ==
    /\ fn.done
    /\ fn.args.current_regime = "A"
    /\ fn.args.last_ladder_idx = -1
    /\ fn.args.premium_sl = None
    /\ fn.result.regime = "B"
    /\ fn.result.last_idx = 1
    /\ config.trailing_ladder[2].trail_to /= -1
    /\ fn.result.premium_sl =
           Some(fn.args.entry_premium + config.trailing_ladder[2].trail_to)

\* C4: in Regime B, on a call where no terminal step (trail_to = -1) is
\* triggered, check_exit returns PREMIUM_TRAIL_SL exactly when option_premium <=
\* premium_sl (premium_sl as this call's ladder progression leaves it) and no
\* signal otherwise; the signal's exit_premium is the supplied option_premium.
C4_TrailingStopInRegimeB ==
    (/\ fn.done
     /\ fn.args.current_regime = "B"
     /\ ~(/\ fn.result.last_idx >= 0
          /\ config.trailing_ladder[fn.result.last_idx + 1].trail_to = -1))
    => LET a == fn.args
           r == fn.result
       IN  IF r.premium_sl /= None /\ a.option_premium <= r.premium_sl[1]
           THEN r.signal = Some(ExitSignal("PREMIUM_TRAIL_SL", a.option_premium))
           ELSE r.signal = None

\* C4's case: Regime B, the premium strictly below the stop, PREMIUM_TRAIL_SL
\* returned at the supplied premium
C4_Witness ==
    /\ fn.done
    /\ fn.args.current_regime = "B"
    /\ fn.args.last_ladder_idx = 0
    /\ fn.result.premium_sl /= None
    /\ fn.args.option_premium < fn.result.premium_sl[1]
    /\ fn.result.signal /= None
    /\ fn.result.signal[1].reason = "PREMIUM_TRAIL_SL"
    /\ fn.result.signal[1].exit_premium = fn.args.option_premium

\* C5: in Regime B, whenever the gain is >= the trigger of the terminal step
\* (trail_to = -1) and of every earlier step, check_exit returns PREMIUM_TARGET at
\* the supplied premium, and never PREMIUM_TRAIL_SL, even when option_premium <=
\* premium_sl.
C5_TargetBeforeTrailingStop ==
    (/\ fn.done
     /\ fn.args.current_regime = "B"
     /\ \E i \in 1..Len(config.trailing_ladder) :
           /\ config.trailing_ladder[i].trail_to = -1
           /\ \A j \in 1..i : config.trailing_ladder[j].trigger
                                 <= fn.args.option_premium - fn.args.entry_premium)
    => fn.result.signal = Some(ExitSignal("PREMIUM_TARGET", fn.args.option_premium))

\* C5's case: the terminal step triggered on a call whose premium is also at or
\* below the trailing stop
C5_Witness ==
    /\ fn.done
    /\ fn.args.current_regime = "B"
    /\ fn.args.last_ladder_idx < Len(config.trailing_ladder) - 1
    /\ fn.result.last_idx = Len(config.trailing_ladder) - 1
    /\ fn.result.premium_sl /= None
    /\ fn.args.option_premium <= fn.result.premium_sl[1]
    /\ fn.result.signal /= None
    /\ fn.result.signal[1].reason = "PREMIUM_TARGET"

----------------------------------------------------------------------------
(* Properties of EntrySignal.check_entry (SpecEntry) *)

----------------------------------------------------------------------------
(* EntrySignal.check_sl_before_entry on its own, and the entry phase of the  *)
(* session that consults it                                                  *)

\* the well-formed candle shapes with prices 1..MaxLevel
LevelShapes ==
    {x \in [open : 1..MaxLevel, high : 1..MaxLevel, low : 1..MaxLevel, close : 1..MaxLevel] :
        x.low <= x.open /\ x.low <= x.close /\ x.open <= x.high /\ x.close <= x.high}

\* the candles stamped t with prices 1..MaxLevel
LevelCandles(t) == {Candle(t, x.open, x.high, x.low, x.close) : x \in LevelShapes}

\* a confirmed breakout as the detector builds it: L1 below H1
LevelBreakoutInfos ==
    {[side |-> sd, breakout_candle_idx |-> 1, h3 |-> 1, l3 |-> 1, h1 |-> x[1], l1 |-> x[2],
      confirmed_at |-> 1] :
        sd \in {"CALL", "PUT"},
        x \in {y \in (1..MaxLevel) \X (1..MaxLevel) : y[2] < y[1]}}

\* a session past its opening range whose detector has confirmed bo, flat, with
\* the indicators r and st
SessionAfterBreakout(bo, r, st, max_re_entries) ==
    [rsi |-> r, supertrend |-> st,
     orb |-> [candles |-> <<Candle(1, bo.h3, bo.h3, bo.l3, bo.l3)>>,
              h3 |-> Some(bo.h3), l3 |-> Some(bo.l3)],
     breakout |-> Some([BreakoutDetector(bo.h3, bo.l3) EXCEPT !.breakout = Some(bo),
                                                              !.candle_idx = 1]),
     entry |-> Some(EntrySignal(RsiEntryMin, RsiEntryMax, NoNewEntryAfter, max_re_entries)),
     position |-> on_breakout(PositionInit, bo),
     trade_counter |-> 0, trades |-> <<>>, day_done |-> FALSE, ret |-> None]

VetoArgs ==
    [candle : LevelCandles(2),
     bo : LevelBreakoutInfos,
     r : {[RSIReset EXCEPT !.prev_close = Some(1), !.avg_gain = Some(RInt(g)),
                           !.avg_loss = Some(RInt(1 - g))] : g \in {0, 1}},
     st : SupertrendStates,
     option_premium : {None, Some(1)}]

InitVeto ==
    /\ SessionInit
    /\ config \in {AppConfig(DefaultLadder, m) : m \in ReEntryLimits}
    /\ fn \in {[name |-> "check_sl_before_entry", args |-> a, done |-> FALSE,
                result |-> None] : a \in VetoArgs}

\* one call check_sl_before_entry(candle, breakout), and the entry phase of
\* process_candle run on the same candle
CheckSlBeforeEntry ==
    /\ fn.name = "check_sl_before_entry"
    /\ ~fn.done
    /\ fn' = [fn EXCEPT
                !.done = TRUE,
                !.result = [veto |-> check_sl_before_entry(fn.args.candle, fn.args.bo),
                            session |-> entry_phase(
                                SessionAfterBreakout(fn.args.bo, fn.args.r, fn.args.st,
                                                     config.max_re_entries_per_side),
                                fn.args.candle, fn.args.option_premium)]]
    /\ UNCHANGED <<sessionVars, config>>

NextVeto == CheckSlBeforeEntry

SpecVeto == InitVeto /\ [][NextVeto]_vars

\* C11: check_sl_before_entry returns True exactly when, over the candle's ticks
\* in order (close >= open: O, L, H, C; otherwise O, H, L, C), the first tick that
\* reaches either level reaches the stop level (CALL: tick <= L1; PUT: tick >= H1)
\* and not the entry level (CALL: tick >= H1; PUT: tick <= L1); it returns False
\* when the entry level is reached first or when no tick reaches a level; and the
\* entry phase opens no position on a candle for which it returns True.
C11_StopBeforeEntryVetoes ==
    fn.done =>
        LET c == fn.args.candle
            bo == fn.args.bo
            ticks == IF c.close >= c.open THEN <<c.open, c.low, c.high, c.close>>
                     ELSE <<c.open, c.high, c.low, c.close>>
            stop(i) == IF bo.side = "CALL" THEN ticks[i] <= bo.l1 ELSE ticks[i] >= bo.h1
            enter(i) == IF bo.side = "CALL" THEN ticks[i] >= bo.h1 ELSE ticks[i] <= bo.l1
            stop_first == \E i \in 1..4 : /\ stop(i)
                                          /\ \A j \in 1..(i - 1) : ~stop(j) /\ ~enter(j)
        IN  /\ fn.result.veto = stop_first
            /\ fn.result.veto => ~is_active(fn.result.session.position)

\* C11's case: the stop comes first on a candle that passes every other gate of
\* the entry phase (premium supplied, RSI, SuperTrend, price crossing), and no
\* position is opened
C11_Witness ==
    /\ fn.done
    /\ fn.result.veto
    /\ fn.args.option_premium /= None
    /\ check_entry(EntrySignal(RsiEntryMin, RsiEntryMax, NoNewEntryAfter,
                               config.max_re_entries_per_side),
                   fn.args.r, fn.args.st, fn.args.candle, fn.args.bo, 0,
                   fn.args.candle.timestamp) /= None
    /\ ~is_active(fn.result.session.position)

----------------------------------------------------------------------------
(* BreakoutDetector on its own: built on a range L3 <= H3 and fed candles one *)
(* per minute; breakout holds the detector, fn the last update call          *)

InitBreakout ==
    /\ rsi = RSIReset
    /\ supertrend = STReset
    /\ orb = ORBInit
    /\ breakout \in {Some(BreakoutDetector(x[1], x[2])) :
                        x \in {y \in (1..MaxLevel) \X (1..MaxLevel) : y[2] <= y[1]}}
    /\ entry = None
    /\ position = PositionInit
    /\ trade_counter = 0
    /\ trades = <<>>
    /\ day_done = FALSE
    /\ call = None
    /\ config = AppConfig(DefaultLadder, 1)
    /\ fn = None

\* one call update(candle)
BreakoutDetectorUpdate(candle) ==
    /\ breakout' = Some(BreakoutUpdate(breakout[1], candle))
    /\ fn' = Some([name |-> "update", candle |-> candle,
                   result |-> BreakoutUpdateResult(breakout[1], candle)])
    /\ UNCHANGED <<rsi, supertrend, orb, entry, position, trade_counter, trades,
                   day_done, call, config>>

NextBreakout ==
    \E t \in {u \in 1..MaxTime : u = IF fn = None THEN 1 ELSE fn[1].candle.timestamp + 1} :
        \E candle \in LevelCandles(t) : BreakoutDetectorUpdate(candle)

SpecBreakout == InitBreakout /\ [][NextBreakout]_vars

\* C12: update confirms a breakout on the first candle fed to it whose close is
\* strictly outside [L3, H3].  close > H3 gives CALL with H1 = that candle's high
\* and L1 = the low of the candle fed just before it, or L3 when it is the first
\* candle fed; close < L3 gives PUT with L1 = that candle's low and H1 = the high
\* of the candle fed just before, or H3 when there is none.  A close equal to H3
\* or L3 confirms nothing and that candle becomes the previous candle.
C12_BreakoutLevels ==
    [][ (fn' /= fn /\ breakout[1].breakout = None)
        => LET d == breakout[1]
               c == fn'[1].candle
               r == fn'[1].result
           IN  IF c.close > d.h3
               THEN /\ r /= None
                    /\ breakout'[1].breakout = r
                    /\ r[1].side = "CALL"
                    /\ r[1].h3 = d.h3 /\ r[1].l3 = d.l3
                    /\ r[1].h1 = c.high
                    /\ r[1].l1 = (IF fn = None THEN d.l3 ELSE fn[1].candle.low)
               ELSE IF c.close < d.l3
               THEN /\ r /= None
                    /\ breakout'[1].breakout = r
                    /\ r[1].side = "PUT"
                    /\ r[1].h3 = d.h3 /\ r[1].l3 = d.l3
                    /\ r[1].l1 = c.low
                    /\ r[1].h1 = (IF fn = None THEN d.h3 ELSE fn[1].candle.high)
               ELSE /\ r = None
                    /\ breakout'[1].breakout = None
                    /\ breakout'[1].prev_candle = Some(c) ]_vars

\* C12's case: a PUT breakout confirmed on a later candle, after a candle that
\* closed exactly on L3, with H1 taken from that candle and different from H3
C12_Witness ==
    /\ fn /= None
    /\ fn[1].result /= None
    /\ fn[1].result[1].side = "PUT"
    /\ fn[1].result[1].breakout_candle_idx >= 2
    /\ breakout[1].prev_candle /= None
    /\ breakout[1].prev_candle[1].close = breakout[1].l3
    /\ fn[1].result[1].h1 = breakout[1].prev_candle[1].high
    /\ fn[1].result[1].h1 /= breakout[1].h3

\* C13: the breakout is one-shot.  Once a breakout is confirmed, every later
\* update returns None and leaves the detector (side, H1, L1, H3, L3, the stored
\* previous candle) unchanged, whatever the candle.
C13_BreakoutOneShot ==
    [][ (fn' /= fn /\ breakout[1].breakout /= None)
        => /\ fn'[1].result = None
           /\ breakout' = breakout ]_vars

\* C13's case: after a CALL breakout a candle closing below L3 has been fed and
\* nothing was returned
C13_Witness ==
    /\ fn /= None
    /\ breakout[1].breakout /= None
    /\ breakout[1].breakout[1].side = "CALL"
    /\ fn[1].candle.timestamp > breakout[1].breakout[1].confirmed_at
    /\ fn[1].candle.close < breakout[1].l3
    /\ fn[1].result = None

----------------------------------------------------------------------------
(* More properties of the session (Spec) *)

\* C14: within one session every TradeRecord carries the side and the H3, L3, H1,
\* L1 of the one confirmed breakout, however many re-entries and exits occur, and
\* a position is only ever held on the breakout's side.
C14_TradesCarryTheBreakout ==
    /\ \A i \in 1..Len(trades) :
          /\ breakout /= None
          /\ breakout[1].breakout /= None
          /\ LET bo == breakout[1].breakout[1]
             IN  /\ trades[i].side = bo.side
                 /\ <<trades[i].h3, trades[i].l3, trades[i].h1, trades[i].l1>>
                        = <<bo.h3, bo.l3, bo.h1, bo.l1>>
                 /\ <<orb.h3, orb.l3>> = <<Some(bo.h3), Some(bo.l3)>>
    /\ is_active(position) =>
          /\ breakout /= None
          /\ breakout[1].breakout /= None
          /\ position.side = Some(breakout[1].breakout[1].side)

\* C14's case: two trades closed in one session, the second a re-entry
C14_Witness ==
    /\ Len(trades) = 2
    /\ trades[1].exit_time < trades[2].entry_time

----------------------------------------------------------------------------
(* One trade's lifetime: a position just entered, then _check_exit called on *)
(* successive candles until it closes the trade; fn holds the last call      *)

\* the position after on_breakout and on_entry
EnteredPositions ==
    {on_entry(on_breakout(PositionInit, [side |-> sd, breakout_candle_idx |-> 1, h3 |-> 1, l3 |-> 1, h1 |-> 2, l1 |-> 1, confirmed_at |-> 1]),
              sd, p, 1, IF sd = "CALL" THEN "CE" ELSE "PE") :
        sd \in {"CALL", "PUT"}, p \in {1, 2}}

InitTrade ==
    /\ rsi = RSIReset
    /\ supertrend = STReset
    /\ orb = ORBInit
    /\ breakout = None
    /\ entry = None
    /\ position \in EnteredPositions
    /\ trade_counter = 0
    /\ trades = <<>>
    /\ day_done = FALSE
    /\ call = None
    /\ config \in {AppConfig(lad, 1) : lad \in ExitLadders}
    /\ fn = None

\* one call _check_exit(candle, option_premium) on the open position
TradeCheckExit(candle, option_premium) ==
    /\ is_active(position)
    /\ \E T \in {session_check_exit(Session, candle, option_premium)} :
          /\ position' = T.position
          /\ trade_counter' = T.trade_counter
          /\ trades' = T.trades
          /\ fn' = Some([name |-> "_check_exit", candle |-> candle,
                         option_premium |-> option_premium, ret |-> T.ret])
    /\ UNCHANGED <<rsi, supertrend, orb, breakout, entry, day_done, call, config>>

NextTrade ==
    \E candle \in Bars : \E p \in 1..MaxPremium : TradeCheckExit(candle, p)

SpecTrade == InitTrade /\ [][NextTrade]_vars

\* C15: within one trade last_triggered_ladder_idx never decreases across
\* successive check_exit calls: it is -1 after on_entry, and each call that leaves
\* the trade open leaves it at the highest index i above the previous one such
\* that every step after the previous index up to i has its trigger <= the
\* current gain (steps are taken in order from just after the last triggered one,
\* stopping at the first whose trigger exceeds the gain), or where it was if the
\* next step is not reached.
C15_LadderIndexMonotone ==
    [][ (fn' /= fn /\ is_active(position'))
        => LET lad == config.trailing_ladder
               i0 == position.last_triggered_ladder_idx
               gain == fn'[1].option_premium - position.entry_premium
               reached == {i \in (i0 + 1)..(Len(lad) - 1) :
                              \A j \in (i0 + 1)..i : lad[j + 1].trigger <= gain}
           IN  /\ (fn = None) => (i0 = -1)
               /\ position'.last_triggered_ladder_idx >= i0
               /\ position'.last_triggered_ladder_idx =
                      (IF reached = {} THEN i0
                       ELSE CHOOSE i \in reached : \A j \in reached : j <= i)
               /\ position'.entry_premium = position.entry_premium ]_vars

\* C15's case: an open trade of a three-step ladder whose last call left the
\* index at step 1, the scan having stopped at step 2
C15_Witness ==
    /\ fn /= None
    /\ is_active(position)
    /\ Len(config.trailing_ladder) = 3
    /\ position.last_triggered_ladder_idx = 1
    /\ fn[1].option_premium - position.entry_premium < config.trailing_ladder[3].trigger

----------------------------------------------------------------------------
(* PositionManager alone: its public methods called in any order by a client, *)
(* and the session's writes through the position property; fn holds the last  *)
(* call, with the TradeRecord on_exit returned                                *)

MaxEntries == 2
MaxTrades == 2

\* the BreakoutInfo values handed to on_breakout
PositionInfos ==
    {[side |-> "CALL", breakout_candle_idx |-> 2, h3 |-> 2, l3 |-> 1, h1 |-> 3, l1 |-> 1, confirmed_at |-> 2],
     [side |-> "PUT", breakout_candle_idx |-> 3, h3 |-> 2, l3 |-> 1, h1 |-> 2, l1 |-> 0, confirmed_at |-> 3]}

\* the values the session writes back after check_exit
WriteBackValues ==
    [premium_sl : {None, Some(1)}, highest_gain : {0, 1}, last_idx : {-1, 0},
     regime : {"A", "B"}]

InitPosition ==
    /\ rsi = RSIReset
    /\ supertrend = STReset
    /\ orb = ORBInit
    /\ breakout = None
    /\ entry = None
    /\ position = PositionInit
    /\ trade_counter = 0
    /\ trades = <<>>
    /\ day_done = FALSE
    /\ call = None
    /\ config = AppConfig(DefaultLadder, 1)
    /\ fn = None

OnBreakout(info) ==
    /\ position' = on_breakout(position, info)
    /\ fn' = Some([name |-> "on_breakout", args |-> [breakout |-> info], result |-> None])
    /\ UNCHANGED trade_counter

OnEntry(side, entry_premium, entry_time) ==
    /\ position.call_entries_today + position.put_entries_today < MaxEntries
    /\ position' = on_entry(position, side, entry_premium, entry_time, IF side = "CALL" THEN "CE" ELSE "PE")
    /\ fn' = Some([name |-> "on_entry", args |-> [side |-> side, entry_premium |-> entry_premium, entry_time |-> entry_time], result |-> None])
    /\ UNCHANGED trade_counter

OnRegimeChange(regime) ==
    /\ position' = on_regime_change(position, regime)
    /\ fn' = Some([name |-> "on_regime_change", args |-> [regime |-> regime], result |-> None])
    /\ UNCHANGED trade_counter

OnExit(exit_premium, exit_time, exit_reason) ==
    /\ trade_counter < MaxTrades
    /\ position' = on_exit_position(position)
    /\ trade_counter' = trade_counter + 1
    /\ fn' = Some([name |-> "on_exit", args |-> [exit_premium |-> exit_premium, exit_time |-> exit_time, exit_reason |-> exit_reason], result |-> Some(on_exit_record(position, trade_counter, exit_premium, exit_time, exit_reason))])

ResetForNewDay ==
    /\ position' = reset_for_new_day
    /\ fn' = Some([name |-> "reset_for_new_day", args |-> [none |-> None], result |-> None])
    /\ UNCHANGED trade_counter

\* the session's write-back into the open position (session.py:234-239)
WriteBack(r) ==
    /\ is_active(position)
    /\ position' = persist_exit_result(position, r, IF position.state = "ACTIVE_REGIME_B" THEN "B" ELSE "A")
    /\ fn' = Some([name |-> "position", args |-> r, result |-> None])
    /\ UNCHANGED trade_counter

NextPosition ==
    /\ \/ \E info \in PositionInfos : OnBreakout(info)
       \/ \E side \in {"CALL", "PUT"} : \E p \in {1, 2} : OnEntry(side, p, 4)
       \/ \E regime \in {"A", "B", "C"} : OnRegimeChange(regime)
       \/ \E p \in {1, 2} : \E reason \in {"CANDLE_SL", "FORCE_EXIT"} : OnExit(p, 5, reason)
       \/ ResetForNewDay
       \/ \E r \in WriteBackValues : WriteBack(r)
    /\ UNCHANGED <<rsi, supertrend, orb, breakout, entry, trades, day_done, call, config>>

SpecPosition == InitPosition /\ [][NextPosition]_vars

\* C16: on_exit called when no position is active (state IDLE or WAITING_ENTRY)
\* is a no-op: it returns no trade, does not advance the trade counter and leaves
\* the position, its state included, as it was.
C16_ExitWhenInactiveIsNoOp ==
    [][ (fn' /= fn /\ fn'[1].name = "on_exit" /\ ~is_active(position))
        => /\ position' = position
           /\ trade_counter' = trade_counter
           /\ fn'[1].result = None ]_vars

\* C17: once a breakout is recorded on the position, a further on_breakout call
\* leaves the position (breakout reference, side, state) unchanged in every
\* state, IDLE after an exit included.
C17_SecondBreakoutIsNoOp ==
    [][ (fn' /= fn /\ fn'[1].name = "on_breakout" /\ position.breakout /= None)
        => position' = position ]_vars

\* C18: the TradeRecord on_exit returns has gross_pnl = (exit_premium -
\* entry_premium) * lot_size * lots, charges = 0 and net_pnl = gross_pnl, where
\* entry_premium is the one on_entry recorded: on_entry stores its argument, no
\* call other than on_entry and on_exit changes it, and on_exit reads it.
C18_GrossPnl ==
    [][ fn' /= fn =>
          LET c == fn'[1] IN
          /\ (c.name = "on_entry") => (position'.entry_premium = c.args.entry_premium)
          /\ (c.name \notin {"on_entry", "on_exit", "reset_for_new_day"})
                => (position'.entry_premium = position.entry_premium)
          /\ (c.name = "on_exit") =>
                /\ c.result /= None
                /\ c.result[1].entry_premium = position.entry_premium
                /\ c.result[1].exit_premium = c.args.exit_premium
                /\ c.result[1].lot_size = LotSize
                /\ c.result[1].lots = Lots
                /\ c.result[1].gross_pnl
                      = (c.args.exit_premium - position.entry_premium) * LotSize * Lots
                /\ c.result[1].charges = 0
                /\ c.result[1].net_pnl = c.result[1].gross_pnl ]_vars

\* C18's case: a trade entered at 2 and closed at 1 gives a negative P&L
C18_Witness ==
    /\ fn /= None
    /\ fn[1].name = "on_exit"
    /\ fn[1].result[1].entry_premium = 2
    /\ fn[1].result[1].exit_premium = 1
    /\ fn[1].result[1].gross_pnl = 0 - LotSize * Lots

\* C19: on_exit leaves the position IDLE with entry_premium = 0, entry_time =
\* None, premium_sl = None, highest_premium_gain = 0 and
\* last_triggered_ladder_idx = -1, and leaves the breakout reference, the side
\* and both per-side entry counters as they were.
C19_ExitResetsForReEntry ==
    [][ (fn' /= fn /\ fn'[1].name = "on_exit")
        => /\ position'.state = "IDLE"
           /\ position'.entry_premium = 0
           /\ position'.entry_time = None
           /\ position'.premium_sl = None
           /\ position'.highest_premium_gain = 0
           /\ position'.last_triggered_ladder_idx = -1
           /\ position'.breakout = position.breakout
           /\ position'.side = position.side
           /\ position'.call_entries_today = position.call_entries_today
           /\ position'.put_entries_today = position.put_entries_today ]_vars

\* C19's case: the exit of a Regime B trade, after which the position is idle
\* with its breakout, its side and one counted entry
C19_Witness ==
    /\ fn /= None
    /\ fn[1].name = "on_exit"
    /\ fn[1].result[1].regime_at_exit = "B"
    /\ fn[1].result[1].entry_premium > 0
    /\ position.state = "IDLE"
    /\ position.breakout /= None
    /\ position.side = Some("CALL")
    /\ position.call_entries_today = 1

----------------------------------------------------------------------------
(* Two sessions on the same input: a first session is constructed, warmed up  *)
(* and fed a day of candles (fn.first, with the inputs it got and its          *)
(* position, trades and return value after each); then a second session,      *)
(* constructed the same way (the session variables), is fed the same inputs    *)

\* TradingSession.__init__: the session just constructed
FreshSession ==
    [rsi |-> RSIReset, supertrend |-> STReset, orb |-> ORBInit, breakout |-> None,
     entry |-> None, position |-> PositionInit, trade_counter |-> 0, trades |-> <<>>,
     day_done |-> FALSE, ret |-> None]

\* the warm-up lists: none, or one candle of the day before
WarmUps == {<<>>, <<Candle(0, 1, 2, 1, 2)>>}

\* the (candle shape, option premium) pairs of a day
ReplayInputs ==
    {<<[open |-> 1, high |-> 1, low |-> 1, close |-> 1], None>>,
     <<[open |-> 1, high |-> 2, low |-> 1, close |-> 2], Some(1)>>,
     <<[open |-> 2, high |-> 2, low |-> 2, close |-> 2], Some(1)>>,
     <<[open |-> 2, high |-> 2, low |-> 2, close |-> 2], Some(2)>>,
     <<[open |-> 2, high |-> 2, low |-> 1, close |-> 1], Some(2)>>}

InitReplay ==
    /\ config = AppConfig(DefaultLadder, 2)
    /\ \E w \in WarmUps :
          /\ fn = [warmup |-> w, first |-> warm_up(FreshSession, w), inputs |-> <<>>,
                   outs |-> <<>>, replayed |-> 0]
          /\ \E S \in {warm_up(FreshSession, w)} :
                /\ rsi = S.rsi
                /\ supertrend = S.supertrend
                /\ orb = S.orb
                /\ breakout = S.breakout
                /\ entry = S.entry
                /\ position = S.position
                /\ trade_counter = S.trade_counter
                /\ trades = S.trades
                /\ day_done = S.day_done
    /\ call = None

\* the first session gets the day's next candle (run_day stops once is_done)
FeedFirst(candle, option_premium) ==
    /\ fn.replayed = 0
    /\ ~fn.first.day_done
    /\ candle.timestamp = Len(fn.inputs) + 1
    /\ \E T \in {process_candle([fn.first EXCEPT !.ret = None], candle, option_premium)} :
          fn' = [fn EXCEPT !.first = T,
                           !.inputs = Append(@, <<candle, option_premium>>),
                           !.outs = Append(@, [position |-> T.position, trades |-> T.trades, ret |-> T.ret])]
    /\ UNCHANGED <<sessionVars, config>>

\* the second session gets the next of the inputs the first one got
FeedSecond ==
    /\ fn.replayed < Len(fn.inputs)
    /\ \E T \in {process_candle(Session, fn.inputs[fn.replayed + 1][1], fn.inputs[fn.replayed + 1][2])} :
          /\ rsi' = T.rsi
          /\ supertrend' = T.supertrend
          /\ orb' = T.orb
          /\ breakout' = T.breakout
          /\ entry' = T.entry
          /\ position' = T.position
          /\ trade_counter' = T.trade_counter
          /\ trades' = T.trades
          /\ day_done' = T.day_done
          /\ call' = Some([timestamp |-> fn.inputs[fn.replayed + 1][1].timestamp,
                           option_premium |-> fn.inputs[fn.replayed + 1][2], ret |-> T.ret])
    /\ fn' = [fn EXCEPT !.replayed = @ + 1]
    /\ UNCHANGED config

NextReplay ==
    \/ \E x \in ReplayInputs : FeedFirst(Candle(Len(fn.inputs) + 1, x[1].open, x[1].high, x[1].low, x[1].close), x[2])
    \/ FeedSecond

SpecReplay == InitReplay /\ [][NextReplay]_vars

----------------------------------------------------------------------------
(* backtest/broker_sim.py and backtest/engine.py: the day replay.  The engine  *)
(* changes the TradeRecord process_candle returned in place, and that object   *)
(* is the one in the session's _trades; money amounts of a filled trade are    *)
(* exact rationals.                                                            *)

\* BacktestConfig
BacktestConfig(slippage_points, brokerage_per_order, stt_rate, gst_rate, sebi_charges, stamp_duty, exchange_txn_charge) ==
    [slippage_points |-> slippage_points, brokerage_per_order |-> brokerage_per_order,
     stt_rate |-> stt_rate, gst_rate |-> gst_rate, sebi_charges |-> sebi_charges,
     stamp_duty |-> stamp_duty, exchange_txn_charge |-> exchange_txn_charge]

\* the sell fill without the floor (a faulty variant)
apply_slippage_no_floor(cfg, premium, is_buy) ==
    IF is_buy THEN RAdd(premium, cfg.slippage_points)
    ELSE RSub(premium, cfg.slippage_points)

\* BrokerSimulator.apply_slippage
apply_slippage(cfg, premium, is_buy) ==
    IF is_buy THEN RAdd(premium, cfg.slippage_points)
    ELSE RMax(Rat(5, 100), RSub(premium, cfg.slippage_points))

\* BrokerSimulator.calculate_costs
calculate_costs(cfg, trade) ==
    LET qty == trade.lot_size * trade.lots
        buy_turnover == RMulInt(trade.entry_premium, qty)
        sell_turnover == RMulInt(trade.exit_premium, qty)
        total_turnover == RAdd(buy_turnover, sell_turnover)
        brokerage == RMulInt(cfg.brokerage_per_order, 2)
        stt == RMul(sell_turnover, cfg.stt_rate)
        gst == RMul(brokerage, cfg.gst_rate)
        sebi == RMul(total_turnover, cfg.sebi_charges)
        stamp == RMul(buy_turnover, cfg.stamp_duty)
        exchange_txn == RMul(total_turnover, cfg.exchange_txn_charge)
    IN  [brokerage |-> brokerage, stt |-> stt, gst |-> gst, sebi_charges |-> sebi,
         stamp_duty |-> stamp, exchange_txn |-> exchange_txn,
         slippage_cost |-> RMulInt(cfg.slippage_points, 2 * qty),
         total |-> RAdd(RAdd(RAdd(RAdd(RAdd(brokerage, stt), gst), sebi), stamp), exchange_txn)]

\* BrokerSimulator.apply_costs
apply_costs(cfg, trade) ==
    LET costs == calculate_costs(cfg, trade)
    IN  [trade EXCEPT !.charges = costs.total, !.net_pnl = RSub(trade.gross_pnl, costs.total)]

\* run_day, the body of `if trade:` (engine.py:119-134)
fill_trade(cfg, trade) ==
    LET entry_premium == apply_slippage(cfg, RInt(trade.entry_premium), TRUE)
        exit_premium == apply_slippage(cfg, RInt(trade.exit_premium), FALSE)
    IN  apply_costs(cfg, [trade EXCEPT !.entry_premium = entry_premium,
                                       !.exit_premium = exit_premium,
                                       !.gross_pnl = RMulInt(RSub(exit_premium, entry_premium), trade.lot_size * trade.lots)])

\* BacktestEngine._get_option_premium: quoted is the close of the option's candle
\* at this timestamp, or None when the data has none
get_option_premium(S, quoted) ==
    IF is_active(S.position) \/ (S.breakout /= None /\ BreakoutIsConfirmed(S.breakout[1]))
    THEN quoted
    ELSE None

\* run_day, one turn of the candle loop: the session afterwards, its last trade
\* filled; ret keeps the TradeRecord as process_candle returned it
run_day_candle(S, cfg, candle, quoted) ==
    LET T == process_candle([S EXCEPT !.ret = None], candle, get_option_premium(S, quoted))
    IN  IF T.ret = None THEN T
        ELSE [T EXCEPT !.trades = [@ EXCEPT ![Len(@)] = fill_trade(cfg, T.ret[1])]]

\* the pairs of cost configurations compared: one with slippage 1 and every
\* charge present against no costs, and against one with slippage 2
CostPairs ==
    LET free == BacktestConfig(RInt(0), RInt(0), RInt(0), RInt(0), RInt(0), RInt(0), RInt(0))
        low == BacktestConfig(RInt(1), RInt(20), Rat(1, 2), Rat(1, 5), Rat(1, 10), Rat(1, 4), Rat(1, 3))
        high == BacktestConfig(RInt(2), RInt(1), Rat(1, 8), Rat(1, 6), Rat(1, 7), Rat(1, 9), Rat(1, 11))
    IN  {<<low, free>>, <<high, low>>}

\* Two engines replay the same day under two cost configurations: the session
\* variables are the first engine's session, fn.other the second's; fn.raw lists
\* the first session's TradeRecords as process_candle returned them
InitEngine ==
    /\ SessionInit
    /\ config = AppConfig(DefaultLadder, 2)
    /\ fn \in {[backtest |-> x[1], other_backtest |-> x[2], other |-> FreshSession, raw |-> <<>>] :
                 x \in CostPairs}

RunDayCandle(candle, quoted) ==
    /\ ~day_done
    /\ candle.timestamp = (IF call = None THEN 1 ELSE call[1].timestamp + 1)
    /\ \E T \in {run_day_candle(Session, fn.backtest, candle, quoted)} :
          /\ rsi' = T.rsi
          /\ supertrend' = T.supertrend
          /\ orb' = T.orb
          /\ breakout' = T.breakout
          /\ entry' = T.entry
          /\ position' = T.position
          /\ trade_counter' = T.trade_counter
          /\ trades' = T.trades
          /\ day_done' = T.day_done
          /\ call' = Some([timestamp |-> candle.timestamp, option_premium |-> quoted, ret |-> T.ret])
          /\ fn' = [fn EXCEPT !.other = run_day_candle(fn.other, fn.other_backtest, candle, quoted),
                              !.raw = IF T.ret = None THEN @ ELSE Append(@, T.ret[1])]
    /\ UNCHANGED config

NextEngine ==
    \E t \in 1..MaxTime : \E candle \in Candles(t) : \E quoted \in PremiumInputs :
        RunDayCandle(candle, quoted)

SpecEngine == InitEngine /\ [][NextEngine]_vars

\* the fields of a TradeRecord that record decisions
Decisions(trade) ==
    [side |-> trade.side, entry_time |-> trade.entry_time, exit_time |-> trade.exit_time,
     exit_reason |-> trade.exit_reason, regime_at_exit |-> trade.regime_at_exit,
     re_entry_number |-> trade.re_entry_number]

\* C21: for the same candles and quoted premiums, run_day under any two
\* slippage/charge configurations yields trades equal in side, entry_time,
\* exit_time, exit_reason, regime_at_exit and re_entry_number, and after every
\* candle the same position, indicators, detectors and done flag: the costs
\* applied to a closed trade influence no later entry, ladder step or exit.
C21_DecisionsIndependentOfCosts ==
    /\ Len(trades) = Len(fn.other.trades)
    /\ \A i \in 1..Len(trades) : Decisions(trades[i]) = Decisions(fn.other.trades[i])
    /\ [Session EXCEPT !.trades = <<>>] = [fn.other EXCEPT !.trades = <<>>, !.ret = None]

\* C21's case: two trades under two configurations of which one turns the
\* first trade's net P&L negative and the other does not
C21_Witness ==
    /\ fn.backtest /= fn.other_backtest
    /\ Len(trades) = 2
    /\ RLt(trades[1].net_pnl, RInt(0))
    /\ RLt(RInt(0), fn.other.trades[1].net_pnl)

\* C22: every trade of the day's result has slippage and costs applied once to
\* the record the session emitted: entry_premium = raw entry + slippage_points,
\* exit_premium = max(0.05, raw exit - slippage_points), gross_pnl = (exit -
\* entry) * lot_size * lots on the slipped premiums, charges = 2 * brokerage +
\* STT on the sell notional + GST on brokerage + stamp duty on the buy notional +
\* exchange and SEBI charges on the total notional, net_pnl = gross_pnl - charges.
C22_CostsAppliedOnce ==
    /\ Len(trades) = Len(fn.raw)
    /\ \A i \in 1..Len(trades) :
          LET t == trades[i]
              c == fn.backtest
              qty == fn.raw[i].lot_size * fn.raw[i].lots
              buy == RAdd(RInt(fn.raw[i].entry_premium), c.slippage_points)
              lowered == RSub(RInt(fn.raw[i].exit_premium), c.slippage_points)
              sell == IF RLt(lowered, Rat(1, 20)) THEN Rat(1, 20) ELSE lowered
              gross == RMulInt(RSub(sell, buy), qty)
              brokerage2 == RAdd(c.brokerage_per_order, c.brokerage_per_order)
              charges == RAdd(brokerage2,
                         RAdd(RMul(c.stt_rate, RMulInt(sell, qty)),
                         RAdd(RMul(c.gst_rate, brokerage2),
                         RAdd(RMul(c.stamp_duty, RMulInt(buy, qty)),
                              RMul(RAdd(c.exchange_txn_charge, c.sebi_charges), RMulInt(RAdd(buy, sell), qty))))))
          IN  /\ t.entry_premium = buy
              /\ t.exit_premium = sell
              /\ t.gross_pnl = gross
              /\ t.charges = charges
              /\ t.net_pnl = RSub(gross, charges)
              /\ [t EXCEPT !.entry_premium = 0, !.exit_premium = 0, !.gross_pnl = 0, !.charges = 0, !.net_pnl = 0]
                    = [fn.raw[i] EXCEPT !.entry_premium = 0, !.exit_premium = 0, !.gross_pnl = 0, !.charges = 0, !.net_pnl = 0]

\* C22's case: a finished day with a trade whose sell fill was floored at 0.05
\* and whose charges are not zero
C22_Witness ==
    /\ day_done
    /\ \E i \in 1..Len(trades) :
          /\ trades[i].exit_premium = Rat(1, 20)
          /\ fn.raw[i].exit_premium > 0
          /\ RLt(RInt(0), trades[i].charges)

----------------------------------------------------------------------------
(* The session with warm_up: warm_up(candles) may be called at any time      *)
(* between process_candle calls                                               *)

\* the lists of prior-day candles handed to warm_up
WarmUpLists ==
    {<<Candle(0, 1, 2, 1, 2)>>, <<Candle(0, 1, 2, 1, 2), Candle(0, 2, 2, 1, 1)>>}

InitWarmUp ==
    /\ SessionInit
    /\ config = AppConfig(DefaultLadder, 2)
    /\ fn = None

WarmUp(candles) ==
    /\ \E T \in {warm_up(Session, candles)} :
          /\ rsi' = T.rsi
          /\ supertrend' = T.supertrend
          /\ orb' = T.orb
          /\ breakout' = T.breakout
          /\ entry' = T.entry
          /\ position' = T.position
          /\ trade_counter' = T.trade_counter
          /\ trades' = T.trades
          /\ day_done' = T.day_done
    /\ fn' = Some([name |-> "warm_up", candles |-> candles])
    /\ UNCHANGED <<call, config>>

NextWarmUp ==
    \/ \E candles \in WarmUpLists : WarmUp(candles)
    \/ \E x \in ReplayInputs : \E t \in NextTimes \cap (IF call = None THEN {1} ELSE 1..MaxTime) :
          ProcessCandle(Candle(t, x[1].open, x[1].high, x[1].low, x[1].close), x[2])

SpecWarmUp == InitWarmUp /\ [][NextWarmUp]_vars

\* C23: warm_up(candles) feeds the candles to RSI and SuperTrend only: a warm_up
\* call (a step that is not a process_candle call) leaves the opening-range
\* detector, the breakout detector, the entry evaluator, the position with its
\* entry counters, the trade counter, the trades and the done flag unchanged; as
\* long as no candle has been processed the opening range is empty and nothing
\* has been detected, entered or closed, however many candles were warmed up.
C23_WarmUpFrame ==
    [][ (call' = call)
        => /\ orb' = orb
           /\ breakout' = breakout
           /\ entry' = entry
           /\ position' = position
           /\ trade_counter' = trade_counter
           /\ trades' = trades
           /\ day_done' = day_done
           /\ (call = None) => /\ orb' = ORBInit
                               /\ breakout' = None
                               /\ position' = PositionInit
                               /\ trades' = <<>> ]_vars

\* C23's case: a warm-up of two candles, which moved both indicators, in the
\* middle of a day with a position open
C23_Witness ==
    /\ fn /= None
    /\ Len(fn[1].candles) = 2
    /\ RSIValue(rsi) /= None
    /\ STValue(supertrend) /= None
    /\ rsi.prev_close = Some(fn[1].candles[2].close)
    /\ call /= None
    /\ is_active(position)

----------------------------------------------------------------------------
(* OpeningRangeDetector(N) alone, fed candles; config.num_candles is N and fn *)
(* the last update call with its return value                                *)

InitOrb ==
    /\ SessionInit
    /\ config \in {[num_candles |-> N] : N \in 1..3}
    /\ fn = None

OrbUpdate(candle) ==
    /\ orb' = ORBUpdate(orb, candle, config.num_candles)
    /\ fn' = Some([name |-> "update", candle |-> candle, result |-> ORBUpdateResult(orb, candle, config.num_candles)])
    /\ UNCHANGED <<rsi, supertrend, breakout, entry, position, trade_counter, trades, day_done, call, config>>

NextOrb ==
    \E l \in 1..MaxLevel : \E h \in l..MaxLevel : OrbUpdate(Candle(Len(orb.candles) + 1, l, h, l, h))

SpecOrb == InitOrb /\ [][NextOrb]_vars

\* C24: OpeningRangeDetector(N): until N candles have been fed H3 and L3 are
\* None, is_complete is false and update returns False; the N-th update returns
\* True and sets H3 to the greatest of the N highs and L3 to the least of the N
\* lows; every later update returns True and changes neither H3, L3 nor the
\* stored candles.
C24_OpeningRange ==
    [][ fn' /= fn =>
          LET N == config.num_candles
              k == Len(orb.candles)
              c == fn'[1].candle
              fed == Append(orb.candles, c)
          IN  /\ (k < N) => (orb.h3 = None /\ orb.l3 = None)
              /\ (k + 1 < N) => /\ fn'[1].result = FALSE
                                /\ orb'.candles = fed
                                /\ orb'.h3 = None /\ orb'.l3 = None
                                /\ ~ORBIsComplete(orb', N)
              /\ (k + 1 = N) => /\ fn'[1].result = TRUE
                                /\ orb'.candles = fed
                                /\ ORBIsComplete(orb', N)
                                /\ orb'.h3 /= None /\ orb'.l3 /= None
                                /\ \E i \in 1..N : fed[i].high = orb'.h3[1]
                                /\ \A i \in 1..N : fed[i].high <= orb'.h3[1]
                                /\ \E i \in 1..N : fed[i].low = orb'.l3[1]
                                /\ \A i \in 1..N : fed[i].low >= orb'.l3[1]
              /\ (k >= N) => /\ fn'[1].result = TRUE
                             /\ orb' = orb ]_vars

\* C24's case: a detector of three candles, complete, just fed a fourth candle
\* that is higher and lower than the range
C24_Witness ==
    /\ fn /= None
    /\ config.num_candles = 3
    /\ fn[1].candle.timestamp = 4
    /\ fn[1].candle.high > orb.h3[1]
    /\ fn[1].candle.low < orb.l3[1]
    /\ fn[1].result = TRUE

----------------------------------------------------------------------------
(* One indicator alone: RSI(period) fed closes, or SuperTrend(period,         *)
(* multiplier) fed bars, with reset().  config names the indicator and its    *)
(* parameters; fn is the last call: the object before it, the result, the     *)
(* number n of updates since construction or reset, and whether the closes    *)
(* fed since then are strictly increasing (inc) or decreasing (dec)           *)

MaxBars == 4
MaxClose == 4

\* the bars fed to SuperTrend: <<high, low, close>> with low <= close <= high
SupertrendBars ==
    {b \in {1, 2, 3} \X {1, 2, 3} \X {1, 2, 3} : b[2] <= b[3] /\ b[3] <= b[1]}

InitIndicator ==
    /\ SessionInit
    /\ config \in {[indicator |-> "RSI", period |-> P, multiplier |-> 1] : P \in 1..3}
                  \cup {[indicator |-> "SuperTrend", period |-> P, multiplier |-> M] : P \in 1..2, M \in 1..2}
    /\ fn = [name |-> "__init__", args |-> <<>>, result |-> None, before |-> None, n |-> 0, inc |-> TRUE, dec |-> TRUE]

RsiUpdate(close) ==
    /\ config.indicator = "RSI"
    /\ fn.n < MaxBars
    /\ rsi' = RSIUpdate(rsi, close, config.period)
    /\ fn' = [name |-> "update", args |-> <<close>>,
              result |-> RSIUpdateResult(rsi, close, config.period),
              before |-> Some(rsi), n |-> fn.n + 1,
              inc |-> fn.inc /\ (rsi.prev_close = None \/ close > rsi.prev_close[1]),
              dec |-> fn.dec /\ (rsi.prev_close = None \/ close < rsi.prev_close[1])]
    /\ UNCHANGED supertrend

SupertrendUpdate(high, low, close) ==
    /\ config.indicator = "SuperTrend"
    /\ fn.n < MaxBars
    /\ supertrend' = STUpdate(supertrend, high, low, close, config.period, config.multiplier)
    /\ fn' = [name |-> "update", args |-> <<high, low, close>>,
              result |-> STUpdateResult(supertrend, high, low, close, config.period, config.multiplier),
              before |-> Some(supertrend), n |-> fn.n + 1, inc |-> FALSE, dec |-> FALSE]
    /\ UNCHANGED rsi

IndicatorReset ==
    /\ fn.n > 0
    /\ rsi' = RSIReset
    /\ supertrend' = STReset
    /\ fn' = [name |-> "reset", args |-> <<>>, result |-> None, before |-> None, n |-> 0, inc |-> TRUE, dec |-> TRUE]

NextIndicator ==
    /\ \/ \E close \in 1..MaxClose : RsiUpdate(close)
       \/ \E b \in SupertrendBars : SupertrendUpdate(b[1], b[2], b[3])
       \/ IndicatorReset
    /\ UNCHANGED <<orb, breakout, entry, position, trade_counter, trades, day_done, call, config>>

SpecIndicator == InitIndicator /\ [][NextIndicator]_vars

\* C25: RSI(P).update returns None for the first P closes after construction or
\* reset and a value from close P+1 on; SuperTrend(P).update returns None for
\* the first P bars and {value, direction} with direction 1 or -1 from bar P+1
\* on; so a warmed indicator never returns None again until reset; the value
\* property then equals the last update's result (and is None after reset).
C25_IndicatorWarmUp ==
    [][ fn' /= fn =>
          /\ (fn'.name = "update" /\ config.indicator = "RSI") =>
                /\ (fn'.n <= config.period) => (fn'.result = None)
                /\ (fn'.n > config.period) => (fn'.result /= None)
                /\ RSIValue(rsi') = fn'.result
          /\ (fn'.name = "update" /\ config.indicator = "SuperTrend") =>
                /\ (fn'.n <= config.period) => (fn'.result = None)
                /\ (fn'.n > config.period) => /\ fn'.result /= None
                                              /\ fn'.result[1].direction \in {1, -1}
                /\ STValue(supertrend') = fn'.result
          /\ (fn'.name = "reset") => (RSIValue(rsi') = None /\ STValue(supertrend') = None) ]_vars

\* C25's case: RSI(3) returning its first value on the fourth close
C25_Witness ==
    /\ config.indicator = "RSI"
    /\ config.period = 3
    /\ fn.name = "update"
    /\ fn.n = 4
    /\ fn.result /= None
    /\ RSIValue(fn.before[1]) = None

\* C26: every value RSI returns while the closes fed since construction or reset
\* are strictly increasing is 100, and 0 while they are strictly decreasing;
\* RSI(1) returns 100 on a gain and 0 on a loss; the value is 100 whenever the
\* smoothed average loss is 0, a flat sequence included.
C26_RsiExtremes ==
    [][ (fn' /= fn /\ fn'.name = "update" /\ config.indicator = "RSI" /\ fn'.result /= None)
        => LET close == fn'.args[1]
               prev == rsi.prev_close[1]
           IN  /\ fn'.inc => (fn'.result[1] = RInt(100))
               /\ fn'.dec => (fn'.result[1] = RInt(0))
               /\ (config.period = 1 /\ close > prev) => (fn'.result[1] = RInt(100))
               /\ (config.period = 1 /\ close < prev) => (fn'.result[1] = RInt(0))
               /\ (rsi'.avg_loss = Some(RInt(0))) => (fn'.result[1] = RInt(100)) ]_vars

\* C26's case: RSI(2) on a flat sequence, no gain and no loss
C26_Witness ==
    /\ config.indicator = "RSI"
    /\ config.period = 2
    /\ fn.name = "update"
    /\ fn.result = Some(RInt(100))
    /\ rsi.avg_gain = Some(RInt(0))
    /\ rsi.avg_loss = Some(RInt(0))

\* C27: on the bootstrap bar the direction is +1 if close > that bar's final
\* upper band, else -1; afterwards +1 becomes -1 exactly on a bar whose close <
\* its final lower band and -1 becomes +1 exactly on a bar whose close > its
\* final upper band; the value returned is the final lower band when the
\* direction is +1 and the final upper band when it is -1.
C27_SupertrendDirection ==
    [][ (fn' /= fn /\ fn'.name = "update" /\ config.indicator = "SuperTrend" /\ fn'.result /= None)
        => LET close == RInt(fn'.args[3])
               upper == supertrend'.final_upper[1]
               lower == supertrend'.final_lower[1]
               d == fn'.result[1].direction
           IN  /\ (supertrend.direction = None) => (d = 1 <=> RLt(upper, close))
               /\ (supertrend.direction = Some(1)) => (d = -1 <=> RLt(close, lower))
               /\ (supertrend.direction = Some(-1)) => (d = 1 <=> RLt(upper, close))
               /\ d \in {1, -1}
               /\ supertrend'.direction = Some(d)
               /\ fn'.result[1].value = (IF d = 1 THEN lower ELSE upper) ]_vars

\* C27's case: a bullish SuperTrend whose bar closed exactly on the final lower
\* band, and stayed bullish
C27_Witness ==
    /\ config.indicator = "SuperTrend"
    /\ fn.name = "update"
    /\ fn.before[1].direction = Some(1)
    /\ supertrend.direction = Some(1)
    /\ supertrend.final_lower = Some(RInt(fn.args[3]))

----------------------------------------------------------------------------
(* A jump past the whole ladder in one Regime A call *)

\* a finished check_exit call of a Regime A position (no ladder step taken yet)
\* with no underlying stop hit, on a ladder that ends in a full-exit step, with
\* a gain at or above every trigger of the ladder
JumpPastLadder ==
    /\ fn.name = "check_exit"
    /\ fn.done
    /\ fn.args.current_regime = "A"
    /\ fn.args.last_ladder_idx = -1
    /\ ~check_underlying_sl(fn.args.candle, fn.args.side, fn.args.h1, fn.args.l1)
    /\ config.trailing_ladder[Len(config.trailing_ladder)].trail_to = -1
    /\ \A i \in 1..Len(config.trailing_ladder) :
          fn.args.option_premium - fn.args.entry_premium >= config.trailing_ladder[i].trigger

\* the stop of the highest step that is not the full-exit step, or the stop the
\* call was given when the ladder has no such step
HighestNonExitStop ==
    IF Len(config.trailing_ladder) > 1
    THEN Some(fn.args.entry_premium + config.trailing_ladder[Len(config.trailing_ladder) - 1].trail_to)
    ELSE fn.args.premium_sl

\* C28 as stated: a Regime A call whose gain is at or above every trigger,
\* the full-exit step included, returns no signal and only moves to Regime B
\* with the highest non-exit step's stop.
C28_JumpDelaysTheExit ==
    JumpPastLadder =>
        /\ fn.result.signal = None
        /\ fn.result.regime = "B"
        /\ fn.result.premium_sl = HighestNonExitStop

\* C28, as the code has it: that same call returns PREMIUM_TARGET at the
\* premium it was given, in Regime B, with the index of the full-exit step and
\* the highest non-exit step's stop; the full exit is not delayed.
C28_JumpExitsAtOnce ==
    JumpPastLadder =>
        /\ fn.result.signal = Some(ExitSignal("PREMIUM_TARGET", fn.args.option_premium))
        /\ fn.result.regime = "B"
        /\ fn.result.last_idx = Len(config.trailing_ladder) - 1
        /\ fn.result.premium_sl = HighestNonExitStop

\* C28's case: a three-step ladder jumped in one Regime A call
C28_Witness ==
    /\ JumpPastLadder
    /\ Len(config.trailing_ladder) = 3
    /\ fn.args.premium_sl = None
    /\ fn.result.premium_sl /= None

----------------------------------------------------------------------------
(* The order of the phases within one candle *)

\* C29: in one process_candle call the exit check comes before the entry check:
\* the call appends at most one TradeRecord and returns it; a call that closes
\* a position leaves no position open; a call that opens a position returns
\* None and leaves the position as on_entry made it (no exit check has touched
\* it); a position that was open and is still open is the same position.
\* Hence every TradeRecord has entry_time < exit_time, consecutive trades do
\* not overlap, and an open position was entered after the last exit.
C29_OnePhasePerCandle ==
    /\ [][ call' /= call =>
             /\ Len(trades') <= Len(trades) + 1
             /\ SubSeq(trades', 1, Len(trades)) = trades
             /\ (call'[1].ret = None) <=> (trades' = trades)
             /\ (call'[1].ret /= None) =>
                   /\ trades' = Append(trades, call'[1].ret[1])
                   /\ is_active(position)
                   /\ ~is_active(position')
                   /\ call'[1].ret[1].entry_time = position.entry_time[1]
                   /\ call'[1].ret[1].exit_time = call'[1].timestamp
             /\ (~is_active(position) /\ is_active(position')) =>
                   /\ call'[1].ret = None
                   /\ position'.state = "ACTIVE_REGIME_A"
                   /\ position'.entry_time = Some(call'[1].timestamp)
                   /\ position'.entry_premium = call'[1].option_premium[1]
                   /\ position'.premium_sl = None
                   /\ position'.highest_premium_gain = 0
                   /\ position'.last_triggered_ladder_idx = -1
             /\ (is_active(position) /\ is_active(position')) =>
                   /\ call'[1].ret = None
                   /\ position'.entry_time = position.entry_time ]_vars
    /\ [](/\ \A k \in 1..Len(trades) : trades[k].entry_time < trades[k].exit_time
          /\ \A k \in 1..(Len(trades) - 1) : trades[k].exit_time < trades[k + 1].entry_time
          /\ (is_active(position) /\ trades /= <<>>) =>
                trades[Len(trades)].exit_time < position.entry_time[1])

\* C29's case: a position closed by its target on one candle, the next
\* position opened on the very next candle and closed too
C29_Witness ==
    /\ Len(trades) = 2
    /\ trades[1].exit_reason = "PREMIUM_TARGET"
    /\ trades[2].entry_time = trades[1].exit_time + 1
    /\ call /= None
    /\ call[1].ret = Some(trades[2])

----------------------------------------------------------------------------
(* Nothing before the opening range and the breakout *)

----------------------------------------------------------------------------
(* Re-entry numbering *)

\* C31: the k-th TradeRecord of a session (k = 0, 1, ...) has re_entry_number
\* k and trade_id k + 1; a call that opens a position adds exactly 1 to the
\* entered side's counter and leaves the other side's alone; no other call
\* changes a counter, so the counters never go down within a session; a trade
\* closed by a call carries the side's counter minus 1.
C31_ReEntryNumbering ==
    /\ [](\A k \in 1..Len(trades) :
             /\ trades[k].re_entry_number = k - 1
             /\ trades[k].trade_id = k)
    /\ [][ call' /= call =>
             /\ (~is_active(position) /\ is_active(position')) =>
                   /\ position'.call_entries_today =
                         position.call_entries_today + (IF position'.side = Some("CALL") THEN 1 ELSE 0)
                   /\ position'.put_entries_today =
                         position.put_entries_today + (IF position'.side = Some("PUT") THEN 1 ELSE 0)
             /\ ~(~is_active(position) /\ is_active(position')) =>
                   /\ position'.call_entries_today = position.call_entries_today
                   /\ position'.put_entries_today = position.put_entries_today
             /\ (call'[1].ret /= None) =>
                   call'[1].ret[1].re_entry_number =
                       (IF position.side = Some("CALL") THEN position.call_entries_today
                        ELSE position.put_entries_today) - 1 ]_vars

\* C31's case: the second trade of a PUT day, closed with the PUT counter at 2
\* and the CALL counter still at 0
C31_Witness ==
    /\ Len(trades) = 2
    /\ trades[2].side = "PUT"
    /\ trades[2].re_entry_number = 1
    /\ position.put_entries_today = 2
    /\ position.call_entries_today = 0

----------------------------------------------------------------------------
(* live/live_session.py: LiveSessionRunner._on_candle around one session.     *)
(* The ticker's last traded prices of the CE and the PE option are inputs of  *)
(* each callback.  fn is the runner: killed, net_pnl_today, daily_trades, the *)
(* minute of the last candle delivered (last), and two records of where the   *)
(* premium came from: leg, the option whose price the last callback fetched,  *)
(* and entry_leg, the option whose price the open position was entered at.    *)
(* config carries max_daily_loss next to the strategy's configuration.        *)

\* the last traded prices the ticker can hold for an option
LivePremiums == {1, 2, 3}

\* the daily loss limits the runner is built with
DailyLossLimits == {25, 50}

\* _get_current_option_premium with the default before the breakout taken from
\* the PE option (a variant)
get_current_option_premium_pe_default(S, ce_ltp, pe_ltp) ==
    IF is_active(S.position) /\ S.position.option_type = "CE"
    THEN [premium |-> Some(ce_ltp), leg |-> "CE"]
    ELSE IF is_active(S.position) /\ S.position.option_type = "PE"
    THEN [premium |-> Some(pe_ltp), leg |-> "PE"]
    ELSE IF S.breakout /= None /\ BreakoutIsConfirmed(S.breakout[1])
    THEN (IF S.breakout[1].breakout[1].side = "CALL"
          THEN [premium |-> Some(ce_ltp), leg |-> "CE"]
          ELSE [premium |-> Some(pe_ltp), leg |-> "PE"])
    ELSE [premium |-> Some(pe_ltp), leg |-> "PE"]

\* LiveSessionRunner._get_current_option_premium: the premium and the option it
\* is the price of
get_current_option_premium(S, ce_ltp, pe_ltp) ==
    IF is_active(S.position) /\ S.position.option_type = "CE"
    THEN [premium |-> Some(ce_ltp), leg |-> "CE"]
    ELSE IF is_active(S.position) /\ S.position.option_type = "PE"
    THEN [premium |-> Some(pe_ltp), leg |-> "PE"]
    ELSE IF S.breakout /= None /\ BreakoutIsConfirmed(S.breakout[1])
    THEN (IF S.breakout[1].breakout[1].side = "CALL"
          THEN [premium |-> Some(ce_ltp), leg |-> "CE"]
          ELSE [premium |-> Some(pe_ltp), leg |-> "PE"])
    ELSE [premium |-> Some(ce_ltp), leg |-> "CE"]

\* the runner after _handle_exit(trade) with the kill switch never set (a faulty
\* variant)
handle_exit_never_kills(L, trade) ==
    [L EXCEPT !.daily_trades = Append(@, trade),
              !.net_pnl_today = @ + trade.gross_pnl]

\* LiveSessionRunner._handle_exit: the trade tracked and the kill switch
handle_exit(L, trade) ==
    LET net == L.net_pnl_today + trade.gross_pnl
    IN  [L EXCEPT !.daily_trades = Append(@, trade),
                  !.net_pnl_today = net,
                  !.killed = IF net <= -config.max_daily_loss THEN TRUE ELSE @]

\* the prior-day candles _warmup_indicators feeds before the first callback:
\* none, or a rise from a level below the day's prices
LiveWarmUps == {<<>>, <<Candle(0, 0, 0, 0, 0), Candle(0, 0, 2, 0, 2)>>}

InitLive ==
    /\ config \in {[trailing_ladder |-> DefaultLadder, max_re_entries_per_side |-> 2, max_daily_loss |-> x, rsi_period |-> 2] : x \in DailyLossLimits}
    /\ \E w \in LiveWarmUps : \E T \in {warm_up(FreshSession, w)} :
          /\ rsi = T.rsi
          /\ supertrend = T.supertrend
    /\ orb = ORBInit
    /\ breakout = None
    /\ entry = None
    /\ position = PositionInit
    /\ trade_counter = 0
    /\ trades = <<>>
    /\ day_done = FALSE
    /\ call = None
    /\ fn = [killed |-> FALSE, net_pnl_today |-> 0, daily_trades |-> <<>>, last |-> 0, leg |-> None, entry_leg |-> None]

\* one callback _on_candle(nifty_token, candle) with the ticker holding ce_ltp and
\* pe_ltp
OnCandle(candle, ce_ltp, pe_ltp) ==
    IF fn.killed
    THEN /\ fn' = [fn EXCEPT !.last = candle.timestamp]
         /\ UNCHANGED <<sessionVars, call, config>>
    ELSE \E q \in {get_current_option_premium(Session, ce_ltp, pe_ltp)} :
         \E T \in {process_candle(Session, candle, q.premium)} :
            /\ rsi' = T.rsi
            /\ supertrend' = T.supertrend
            /\ orb' = T.orb
            /\ breakout' = T.breakout
            /\ entry' = T.entry
            /\ position' = T.position
            /\ trade_counter' = T.trade_counter
            /\ trades' = T.trades
            /\ day_done' = T.day_done
            /\ call' = Some([timestamp |-> candle.timestamp, option_premium |-> q.premium, ret |-> T.ret])
            /\ fn' = [(IF T.ret /= None THEN handle_exit(fn, T.ret[1]) ELSE fn)
                         EXCEPT !.last = candle.timestamp,
                                !.leg = Some(q.leg),
                                !.entry_leg = IF ~is_active(position) /\ is_active(T.position)
                                              THEN Some(q.leg)
                                              ELSE IF ~is_active(T.position) THEN None ELSE @]
            /\ UNCHANGED config

NextLive ==
    \E candle \in Candles(fn.last + 1) : \E ce_ltp \in LivePremiums : \E pe_ltp \in LivePremiums :
        /\ fn.last < MaxTime
        /\ OnCandle(candle, ce_ltp, pe_ltp)

SpecLive == InitLive /\ [][NextLive]_vars

\* C32: the price of the CE option that the runner fetches by default while no
\* breakout is confirmed is never the entry premium of a position: a position
\* is entered at the price of its own option, so a PUT position is never
\* entered at the CE option's last traded price.
C32_DefaultPremiumNotUsedForEntry ==
    (is_active(position) /\ fn.entry_leg /= None) =>
        fn.entry_leg = Some(position.option_type)

\* C32 refuted: a PUT position open that was entered at the price fetched for
\* the CE option, on the candle that confirmed the PUT breakout
C32_PutEnteredAtCallPrice ==
    /\ is_active(position)
    /\ position.side = Some("PUT")
    /\ position.option_type = "PE"
    /\ fn.entry_leg = Some("CE")
    /\ breakout[1].breakout[1].side = "PUT"

----------------------------------------------------------------------------
(* live/ticker.py: the two threads that reach _emit_candle.  The ticker       *)
(* thread runs _on_ticks for each tick of the NIFTY token; the main thread    *)
(* runs _shutdown: flush_open_candles, then stop.  No lock is taken by        *)
(* either.  fn holds the ticker's candle buffer for the token (buf), each     *)
(* thread's position and locals, the set of threads that are inside the       *)
(* callback _on_candle (and so inside process_candle), and the minutes of     *)
(* the candles delivered so far.                                              *)

MaxMinute == 3

\* the last traded prices a tick carries
TickPrices == {1, 2}

InitTicker ==
    /\ SessionInit
    /\ config = AppConfig(DefaultLadder, 2)
    /\ fn = [buf |-> None, ticker |-> "idle", tick |-> None, emitting |-> None,
             main |-> "waiting", items |-> <<>>, in_callback |-> {}, delivered |-> <<>>,
             stopped |-> FALSE]

\* _on_ticks, one tick (ticker.py:129-172): the buffer is read; a tick of the
\* buffered minute updates it in place; a tick of a new minute finds the buffered
\* candle complete and enters the callback with it, or, with nothing buffered,
\* goes on to start the new buffer
OnTick(minute, ltp) ==
    /\ fn.ticker = "idle"
    /\ ~fn.stopped
    /\ (IF fn.buf = None THEN TRUE ELSE fn.buf[1].minute_key <= minute)
    /\ IF fn.buf /= None /\ fn.buf[1].minute_key = minute
       THEN /\ fn.buf[1].close /= ltp
            /\ fn' = [fn EXCEPT !.buf = Some([minute_key |-> minute, close |-> ltp])]
       ELSE IF fn.buf /= None
       THEN fn' = [fn EXCEPT !.ticker = "in_callback",
                             !.tick = Some([minute_key |-> minute, close |-> ltp]),
                             !.emitting = Some(fn.buf[1].minute_key),
                             !.in_callback = @ \cup {"ticker"},
                             !.delivered = Append(@, fn.buf[1].minute_key)]
       ELSE fn' = [fn EXCEPT !.ticker = "store",
                             !.tick = Some([minute_key |-> minute, close |-> ltp])]

\* the callback called from _on_ticks returns (ticker.py:155)
TickerCallbackReturns ==
    /\ fn.ticker = "in_callback"
    /\ fn' = [fn EXCEPT !.ticker = "store", !.emitting = None, !.in_callback = @ \ {"ticker"}]

\* _on_ticks starts the new candle buffer (ticker.py:158-166)
TickerStartsBuffer ==
    /\ fn.ticker = "store"
    /\ fn' = [fn EXCEPT !.ticker = "idle", !.tick = None, !.buf = fn.tick]

\* _shutdown calls flush_open_candles, which copies the buffers (ticker.py:103)
FlushSnapshot ==
    /\ fn.main = "waiting"
    /\ fn' = [fn EXCEPT !.main = "flushing",
                        !.items = IF fn.buf = None THEN <<>> ELSE <<fn.buf[1].minute_key>>]

\* flush_open_candles enters the callback with a copied buffer (ticker.py:104-107)
FlushEmits ==
    /\ fn.main = "flushing"
    /\ fn.items /= <<>>
    /\ fn' = [fn EXCEPT !.main = "in_callback",
                        !.in_callback = @ \cup {"main"},
                        !.delivered = Append(@, Head(fn.items))]

\* the callback called from flush_open_candles returns
FlushCallbackReturns ==
    /\ fn.main = "in_callback"
    /\ fn' = [fn EXCEPT !.main = "flushing", !.items = Tail(@), !.in_callback = @ \ {"main"}]

\* flush_open_candles clears the buffers (ticker.py:108)
FlushClears ==
    /\ fn.main = "flushing"
    /\ fn.items = <<>>
    /\ fn' = [fn EXCEPT !.main = "stopping", !.buf = None]

\* _shutdown calls stop (live_session.py:478, ticker.py:94-99): no tick is taken up
\* afterwards
TickerStop ==
    /\ fn.main = "stopping"
    /\ fn' = [fn EXCEPT !.main = "done", !.stopped = TRUE]

NextTicker ==
    /\ \/ \E minute \in 1..MaxMinute : \E ltp \in TickPrices : OnTick(minute, ltp)
       \/ TickerCallbackReturns
       \/ TickerStartsBuffer
       \/ FlushSnapshot
       \/ FlushEmits
       \/ FlushCallbackReturns
       \/ FlushClears
       \/ TickerStop
    /\ UNCHANGED <<sessionVars, call, config>>

SpecTicker == InitTicker /\ [][NextTicker]_vars

\* C33: process_candle is entered from one callback path at a time: never are
\* two threads inside _on_candle together, shutdown included, and no candle
\* (minute) is delivered twice.
C33_OneCallbackAtATime ==
    /\ Cardinality(fn.in_callback) <= 1
    /\ \A i, j \in 1..Len(fn.delivered) : fn.delivered[i] = fn.delivered[j] => i = j

\* C33 refuted: the main thread's flush and the ticker thread are inside the
\* callback together, both with the candle of the same minute
C33_OverlapAtShutdown ==
    /\ fn.in_callback = {"ticker", "main"}
    /\ fn.emitting = Some(Head(fn.items))

----------------------------------------------------------------------------
(* The re-entry limit *)

----------------------------------------------------------------------------
(* Position state and the trailing fields *)

\* C35: after every process_candle call: in ACTIVE_REGIME_A no ladder step has
\* been taken (last_triggered_ladder_idx = -1) and there is no premium stop; in
\* ACTIVE_REGIME_B a step has been taken (index >= 0); in IDLE and
\* WAITING_ENTRY the trailing fields hold their initial values; and a position
\* in ACTIVE_REGIME_B never returns to ACTIVE_REGIME_A within the trade.
C35_StateLadderCoherence ==
    /\ [](/\ (position.state = "ACTIVE_REGIME_A") =>
                /\ position.last_triggered_ladder_idx = -1
                /\ position.premium_sl = None
          /\ (position.state = "ACTIVE_REGIME_B") =>
                position.last_triggered_ladder_idx >= 0
          /\ (position.state \in {"IDLE", "WAITING_ENTRY"}) =>
                /\ position.last_triggered_ladder_idx = -1
                /\ position.premium_sl = None
                /\ position.highest_premium_gain = 0
          /\ position.state \in {"IDLE", "WAITING_ENTRY", "ACTIVE_REGIME_A", "ACTIVE_REGIME_B"})
    /\ [][ (position.state = "ACTIVE_REGIME_B" /\ position'.state = "ACTIVE_REGIME_A")
           => FALSE ]_vars

\* C35's case: a position that has been in Regime B over more than one call,
\* with its stop set
C35_Witness ==
    /\ position.state = "ACTIVE_REGIME_B"
    /\ position.last_triggered_ladder_idx = 0
    /\ position.premium_sl /= None
    /\ call[1].timestamp > position.entry_time[1] + 1
    /\ call[1].ret = None

----------------------------------------------------------------------------
(* The premium stop along the ladder *)

\* the ladder has strictly increasing triggers and non-terminal trail_to values
\* that do not decrease and are each below their own trigger
WellFormedLadder(lad) ==
    /\ \A i \in 1..(Len(lad) - 1) : lad[i].trigger < lad[i + 1].trigger
    /\ \A i \in 1..Len(lad) : lad[i].trail_to /= -1 => lad[i].trail_to < lad[i].trigger
    /\ \A i, j \in 1..Len(lad) :
          (i < j /\ lad[i].trail_to /= -1 /\ lad[j].trail_to /= -1) => lad[i].trail_to <= lad[j].trail_to

\* C36: for such a ladder, across the _check_exit calls of one trade: a premium
\* stop that is set never decreases while the trade is open; whenever a step
\* has been taken the stop is entry_premium + trail_to of the last step taken;
\* and a call in which a new ladder step is triggered never signals
\* PREMIUM_TRAIL_SL.
C36_StopFollowsLadder ==
    [][ (fn' /= fn /\ WellFormedLadder(config.trailing_ladder))
        => LET lad == config.trailing_ladder
               i0 == position.last_triggered_ladder_idx
               gain == fn'[1].option_premium - position.entry_premium
               bo == position.breakout[1]
               scanned == position.state = "ACTIVE_REGIME_B"
                          \/ ~check_underlying_sl(fn'[1].candle, position.side[1], bo.h1, bo.l1)
               stepped == scanned /\ i0 + 1 < Len(lad) /\ gain >= lad[i0 + 2].trigger
           IN  /\ (is_active(position') /\ position.premium_sl /= None) =>
                     /\ position'.premium_sl /= None
                     /\ position'.premium_sl[1] >= position.premium_sl[1]
               /\ (is_active(position') /\ position'.last_triggered_ladder_idx >= 0) =>
                     position'.premium_sl =
                         Some(position.entry_premium + lad[position'.last_triggered_ladder_idx + 1].trail_to)
               /\ (stepped /\ fn'[1].ret /= None) =>
                     fn'[1].ret[1].exit_reason /= "PREMIUM_TRAIL_SL" ]_vars

\* C36's case: an open trade on the three-step ladder whose stop was raised from
\* the first step's level to the second's by the last call
C36_Witness ==
    /\ fn /= None
    /\ is_active(position)
    /\ Len(config.trailing_ladder) = 3
    /\ position.last_triggered_ladder_idx = 1
    /\ position.premium_sl = Some(position.entry_premium + 1)
    /\ fn[1].option_premium - position.entry_premium = 2

----------------------------------------------------------------------------
(* Exit reason and regime of a TradeRecord *)

\* C37: in every TradeRecord of a session CANDLE_SL comes with regime_at_exit
\* "A", PREMIUM_TRAIL_SL and PREMIUM_TARGET with "B" (also when the call that
\* exits is the one that moved the position from A to B), and a FORCE_EXIT
\* record carries the regime the position was in when the cutoff candle came.
C37_ReasonAndRegime ==
    /\ [](\A k \in 1..Len(trades) :
             /\ trades[k].exit_reason \in {"CANDLE_SL", "PREMIUM_TRAIL_SL", "PREMIUM_TARGET", "FORCE_EXIT"}
             /\ trades[k].regime_at_exit \in {"A", "B"}
             /\ (trades[k].exit_reason = "CANDLE_SL") => (trades[k].regime_at_exit = "A")
             /\ (trades[k].exit_reason \in {"PREMIUM_TRAIL_SL", "PREMIUM_TARGET"}) =>
                   (trades[k].regime_at_exit = "B"))
    /\ [][ (call' /= call /\ call'[1].ret /= None /\ call'[1].ret[1].exit_reason = "FORCE_EXIT")
           => call'[1].ret[1].regime_at_exit =
                  (IF position.state = "ACTIVE_REGIME_B" THEN "B" ELSE "A") ]_vars

\* C37's case: a trade closed by PREMIUM_TARGET on the call that found its
\* position still in Regime A (entered one candle earlier)
C37_Witness ==
    /\ call /= None
    /\ call[1].ret /= None
    /\ call[1].ret[1].exit_reason = "PREMIUM_TARGET"
    /\ call[1].ret[1].regime_at_exit = "B"
    /\ call[1].ret[1].exit_time = call[1].ret[1].entry_time + 1

----------------------------------------------------------------------------
(* The day runs to its end: the caller (run_day's loop, the live ticker) keeps *)
(* feeding the candles of the day, one per minute, up to the last minute      *)

InitDay ==
    /\ SessionInit
    /\ config = AppConfig(DefaultLadder, 2)
    /\ fn = None

\* the next candle of the day, of one of the day's (shape, premium) pairs
NextDay ==
    \E x \in ReplayInputs : \E t \in NextTimes :
        ProcessCandle(Candle(t, x[1].open, x[1].high, x[1].low, x[1].close), x[2])

\* weak fairness of NextDay: the caller does not stop feeding while a candle is
\* left.  A NextDay step always changes call, so <<NextDay>>_vars is enabled
\* exactly when NextTimes is not empty, and ENABLED is written out as that
DayFairness == []<>(NextTimes = {}) \/ []<><<NextDay>>_vars

SpecDay == InitDay /\ [][NextDay]_vars /\ DayFairness

\* C38: once the opening range is complete and a candle at or after the
\* force-exit time is still to come, the session eventually is done; the call
\* that is given such a candle with the range complete ends the day itself; and
\* when the session is done no position is active and there are as many
\* TradeRecords as entries taken.
C38_DayEnds ==
    /\ (ORBIsComplete(orb, OrbCandles) /\ call /= None /\ call[1].timestamp < MaxTime) ~> day_done
    /\ [][ (call' /= call /\ ORBIsComplete(orb, OrbCandles) /\ call'[1].timestamp >= ForceExitTime)
           => day_done' ]_vars
    /\ [](day_done =>
             /\ ~is_active(position)
             /\ Len(trades) = position.call_entries_today + position.put_entries_today
             /\ call[1].timestamp >= ForceExitTime)

\* C38's case: the day ended by the cutoff candle with a position open, which
\* became the day's second trade
C38_Witness ==
    /\ day_done
    /\ Len(trades) = 2
    /\ trades[2].exit_reason = "FORCE_EXIT"
    /\ call[1].ret = Some(trades[2])
    /\ position.call_entries_today + position.put_entries_today = 2

----------------------------------------------------------------------------
(* the levels of a confirmed breakout *)

\* the prices at which check_sl_before_entry would take both its stop branch and
\* its entry branch for the breakout bo
BothStopAndEntry(bo) ==
    {p \in 0..(MaxLevel + 1) :
        IF bo.side = "CALL" THEN p <= bo.l1 /\ p >= bo.h1
        ELSE p >= bo.h1 /\ p <= bo.l1}

\* C39: every breakout the detector confirms from well-formed candles and an
\* opening range with L3 <= H3 has L1 < H1; a CALL breakout has H1 > H3 and a PUT
\* breakout has L1 < L3; so no price meets both the stop condition and the entry
\* condition of check_sl_before_entry.
C39_LevelsStrictlyOrdered ==
    (breakout /= None /\ breakout[1].breakout /= None)
        => LET bo == breakout[1].breakout[1]
           IN  /\ bo.l3 <= bo.h3
               /\ bo.l1 < bo.h1
               /\ (bo.side = "CALL" => bo.h1 > bo.h3)
               /\ (bo.side = "PUT" => bo.l1 < bo.l3)
               /\ BothStopAndEntry(bo) = {}

\* C39's case: a CALL breakout confirmed after a candle that closed on H3, its
\* stop level L1 taken from that candle and lying above L3, one below H1
C39_Witness ==
    /\ breakout /= None
    /\ breakout[1].breakout /= None
    /\ breakout[1].prev_candle /= None
    /\ breakout[1].breakout[1].side = "CALL"
    /\ breakout[1].breakout[1].l1 = breakout[1].prev_candle[1].low
    /\ breakout[1].breakout[1].l1 > breakout[1].breakout[1].l3
    /\ breakout[1].breakout[1].h1 = breakout[1].breakout[1].l1 + 1

----------------------------------------------------------------------------
(* live/live_session.py with live/ticker.py: _on_candle run by two threads.   *)
(* The ticker thread calls _on_candle for each completed minute; the main     *)
(* thread calls it once from _shutdown through flush_open_candles, with the   *)
(* candle the ticker's buffer holds at that moment: the candle the ticker     *)
(* thread is delivering while that thread is inside the callback (_on_ticks   *)
(* replaces the buffer only after _emit_candle returns), else the open candle *)
(* of the next minute.  No lock is taken.  A callback is three steps: the     *)
(* test of _killed with the fetch of the premium, the call of process_candle, *)
(* and _handle_exit, which places the sell order before it adds the trade and *)
(* sets _killed.  fn is the runner (killed, net_pnl_today, daily_trades,      *)
(* last), each thread's position (pc) and locals (arg), and flushed, set when *)
(* the main thread has begun the flush; the ticker thread begins no callback  *)
(* after that, it only finishes the one it is in.                             *)

RunnerThreads == {"ticker", "main"}

\* the daily loss limit of the runner: the loss of one lot by one point
RunnerLossLimit == 25

\* the last traded prices the ticker holds for an option in the two-thread runs
RunnerPremiums == {1, 2}

InitRunner ==
    /\ config = [trailing_ladder |-> DefaultLadder, max_re_entries_per_side |-> 2, max_daily_loss |-> RunnerLossLimit, rsi_period |-> 2]
    /\ \E w \in LiveWarmUps \ {<<>>} : \E T \in {warm_up(FreshSession, w)} :
          /\ rsi = T.rsi
          /\ supertrend = T.supertrend
    /\ orb = ORBInit
    /\ breakout = None
    /\ entry = None
    /\ position = PositionInit
    /\ trade_counter = 0
    /\ trades = <<>>
    /\ day_done = FALSE
    /\ call = None
    /\ fn = [killed |-> FALSE, net_pnl_today |-> 0, daily_trades |-> <<>>, last |-> 0, flushed |-> FALSE, pc |-> [th \in RunnerThreads |-> "idle"], arg |-> [th \in RunnerThreads |-> None]]

\* the candles flush_open_candles can find in the ticker's buffer
FlushCandles ==
    IF fn.pc["ticker"] /= "idle" THEN {fn.arg["ticker"][1].candle}
    ELSE IF fn.last < MaxTime THEN Candles(fn.last + 1)
    ELSE {}

\* thread th enters _on_candle(nifty_token, candle): the test of _killed and the
\* fetch of the premium
CallbackEnters(th, candle, ce_ltp, pe_ltp) ==
    /\ fn.pc[th] = "idle"
    /\ ~fn.flushed
    /\ \E r \in {[fn EXCEPT !.last = IF th = "ticker" THEN candle.timestamp ELSE @, !.flushed = (th = "main")]} :
          fn' = IF fn.killed THEN r
                ELSE [r EXCEPT !.pc[th] = "checked",
                               !.arg[th] = Some([candle |-> candle,
                                                 premium |-> get_current_option_premium(Session, ce_ltp, pe_ltp).premium,
                                                 trade |-> None])]
    /\ UNCHANGED <<sessionVars, call, config>>

\* thread th, past the test of _killed, calls process_candle
CallbackProcesses(th) ==
    /\ fn.pc[th] = "checked"
    /\ \E a \in {fn.arg[th][1]} : \E T \in {process_candle(Session, a.candle, a.premium)} :
          /\ rsi' = T.rsi
          /\ supertrend' = T.supertrend
          /\ orb' = T.orb
          /\ breakout' = T.breakout
          /\ entry' = T.entry
          /\ position' = T.position
          /\ trade_counter' = T.trade_counter
          /\ trades' = T.trades
          /\ day_done' = T.day_done
          /\ call' = Some([timestamp |-> a.candle.timestamp, option_premium |-> a.premium, ret |-> T.ret])
          /\ fn' = IF T.ret /= None
                   THEN [fn EXCEPT !.pc[th] = "exiting", !.arg[th] = Some([a EXCEPT !.trade = T.ret])]
                   ELSE [fn EXCEPT !.pc[th] = "idle", !.arg[th] = None]
    /\ UNCHANGED config

\* thread th, holding the trade process_candle returned, runs _handle_exit
CallbackHandlesExit(th) ==
    /\ fn.pc[th] = "exiting"
    /\ fn' = [handle_exit(fn, fn.arg[th][1].trade[1]) EXCEPT !.pc[th] = "idle", !.arg[th] = None]
    /\ UNCHANGED <<sessionVars, call, config>>

NextRunner ==
    \/ \E candle \in Candles(fn.last + 1) : \E ce_ltp \in RunnerPremiums : \E pe_ltp \in RunnerPremiums :
          /\ fn.last < MaxTime
          /\ CallbackEnters("ticker", candle, ce_ltp, pe_ltp)
    \/ \E candle \in FlushCandles : \E ce_ltp \in RunnerPremiums : \E pe_ltp \in RunnerPremiums :
          CallbackEnters("main", candle, ce_ltp, pe_ltp)
    \/ \E th \in RunnerThreads : CallbackProcesses(th)
    \/ \E th \in RunnerThreads : CallbackHandlesExit(th)

SpecRunner == InitRunner /\ [][NextRunner]_vars

\* C40: once the gross P&L of the day's closed trades has reached minus the
\* daily loss limit the runner is killed, and it stays killed; while it is
\* killed no candle is passed to process_candle and no position is opened; the
\* kill switch is set only right after an exit, with no position open.
C40_KilledStopsTrading ==
    /\ [](fn.net_pnl_today <= -config.max_daily_loss => fn.killed)
    /\ [][fn.killed => fn'.killed]_vars
    /\ [][fn.killed => (call' = call /\ position' = position)]_vars
    /\ [][(~fn.killed /\ fn'.killed) => ~is_active(position')]_vars

\* C40 refuted: the runner killed and a position open, entered by a callback
\* that had passed the test of the kill switch before the other thread set it
C40_PositionOpenAfterCutoff ==
    /\ fn.killed
    /\ is_active(position)
    /\ fn.net_pnl_today <= -config.max_daily_loss
    /\ Len(fn.daily_trades) < position.call_entries_today + position.put_entries_today

====
